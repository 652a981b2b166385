----------------------------- MODULE MCDownload -----------------------------
(* Download for TLC: files of up to three bytes, chunks of two, and Range  *)
(* headers on both sides of every boundary.                                *)
EXTENDS Download

CONSTANT c1

\* Clients share nothing but the file, which nobody of them changes.
OneClient == {c1}

FewSizes  == {0, 1, 3}
AllSizes  == 0..4
NoHeader  == {[form |-> "none"]}
AllAsks ==
  [form : {"none", "bad"}]
    \cup [form : {"between"}, first : 0..4, last : (-1)..5]
    \cup [form : {"from"}, first : 0..5]
    \cup [form : {"suffix"}, length : (-1)..5]
=============================================================================
