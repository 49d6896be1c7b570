----------------------------- MODULE MCConfigure -----------------------------
(* Instances of Configure for TLC.                                         *)
EXTENDS Configure, TLC

CONSTANTS o1, o2, p1, p2, s1, s2

First == [origin |-> o1, pin |-> NoPin]

Req(o, p, a, s) == [origin |-> o, pin |-> p, action |-> a, secret |-> s]

\* Each intent for the secret.
Intents == {Req(o2, NoPin, "keep", NoSecret), Req(o2, NoPin, "replace", s2),
            Req(o2, NoPin, "delete", NoSecret)}

\* ... and one that leaves with a certificate.
IntentsAndPin == Intents \cup {Req(o2, p1, "keep", NoSecret)}

\* The intents whose failure has everything to undo.
WritingIntents == {r \in Intents : r.action # "keep"}
=============================================================================
