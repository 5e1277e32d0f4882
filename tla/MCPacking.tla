----------------------------- MODULE MCPacking -----------------------------
(* Packing in a ring of degree 16: up to seven steps in a half, so that they are
   grouped evenly, with a shorter last group, in one group, and one by one. *)
EXTENDS Packing

MCVector(draw) ==
  [i \in Coef |-> ((draw + 3) * (i + 1) * (i + draw + 2) + i * i * i + draw) % Q]

Call(part, gamma, baby, ch, th) ==
  [partial |-> part, gamma |-> gamma, babySize |-> baby, chunkSize |-> ch,
   threads |-> th, salt |-> gamma + baby + 3 * th]

MCCases ==
  {Call(FALSE, 16, baby, ch, th) : baby \in {1, 3, 4}, ch \in {1, 4}, th \in {1, 3}}
    \cup {Call(TRUE, 8, baby, ch, th) : baby \in {1, 2, 3, 8}, ch \in {1, 2}, th \in {2, 3}}
    \cup {Call(TRUE, gamma, baby, 1, th) : gamma \in {1, 2, 4}, baby \in {1, 2}, th \in {1, 2}}
=============================================================================
