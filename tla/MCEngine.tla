------------------------------ MODULE MCEngine ------------------------------
(***************************************************************************)
(* Engine on a small instance: three block heights, a fork from the second *)
(* one on, a block of two events so that the cursor can stop inside it,     *)
(* batches of up to two spans and one batch of each malformed shape.       *)
(***************************************************************************)
EXTENDS Engine

CONSTANTS a, b

MCHash == {a, b}

Sp(number, hash, logs) == [number |-> number, hash |-> hash, logs |-> logs]

Spans == {Sp(1, a, <<0>>), Sp(2, a, <<0, 1>>), Sp(2, b, <<0>>),
          Sp(3, a, <<0>>)}

SpanLists ==
    {<<>>} \cup {<<s>> : s \in Spans}
    \cup {p \in Spans \X Spans : p[1].number < p[2].number}

Malformed ==
    {<<Sp(1, a, <<>>)>>, <<Sp(2, a, <<1, 0>>)>>, <<Sp(2, a, <<0>>), Sp(1, a, <<0>>)>>}

MCBatches ==
    [boundary : {BlockOf(s) : s \in Spans} \cup {NoBlock}, spans : SpanLists]
    \cup [boundary : {NoBlock}, spans : Malformed]

MCForeign == {[block |-> 2, log |-> 0, hash |-> a]}

MCRollbackTargets == 1..3
=============================================================================
