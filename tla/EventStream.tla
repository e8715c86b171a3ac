----------------------------- MODULE EventStream -----------------------------
(***************************************************************************)
(* What the reader of a client stream's Events channel is promised         *)
(* (internal/stt, internal/llm and internal/tts, type Stream): the events  *)
(* of the service in order and without a gap, then at most one synthetic   *)
(* error, then nothing; and it does not wait for ever.                     *)
(*                                                                         *)
(* Events are numbered 1, 2, ... in the order the service sent them; 0 is  *)
(* the error the client library adds.                                      *)
(***************************************************************************)
EXTENDS Naturals, Sequences

VARIABLES
    got,   \* what the reader has taken from Events
    over   \* "yes" once it will take nothing more

Init == got = <<>> /\ over = "no"

Deliver ==
    /\ over = "no"
    /\ got' = Append(got, Len(got) + 1) /\ over' = "no"

Fail ==
    /\ over = "no"
    /\ got' = Append(got, 0) /\ over' = "yes"

End ==
    /\ over = "no"
    /\ got' = got /\ over' = "yes"

Next == Deliver \/ Fail \/ End

Spec == Init /\ [][Next]_<<got, over>> /\ <>(over = "yes")
=============================================================================
