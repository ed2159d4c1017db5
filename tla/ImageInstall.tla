----------------------------- MODULE ImageInstall -----------------------------
(***************************************************************************)
(* What a caller of UpdateBoardFirmware is promised.  A board runs one     *)
(* image at a time and goes from one to the next in one step, or not at    *)
(* all.  It takes a call's image only after the call has had every chunk   *)
(* of it acknowledged, so a call that fails before leaves the board as it  *)
(* was; one that fails later may still see its image installed, as long as *)
(* no other call begins.  A call that succeeds has it installed.           *)
(***************************************************************************)
EXTENDS Naturals

CONSTANT MaxCalls  \* bound on the calls

VARIABLES
  calling,    \* a call is under way
  call,       \* its number, or that of the last one, and its image
  delivered,  \* its image is acknowledged to the last chunk
  installed,  \* the image the board runs
  result      \* what the last call returned

vars == << calling, call, delivered, installed, result >>

Init ==
  /\ calling = FALSE /\ call = 0 /\ delivered = FALSE
  /\ installed = 0 /\ result = "none"

Update ==
  /\ ~calling /\ call < MaxCalls
  /\ calling' = TRUE /\ call' = call + 1
  /\ delivered' = FALSE /\ result' = "none"
  /\ UNCHANGED installed

Deliver ==
  /\ calling /\ ~delivered
  /\ delivered' = TRUE
  /\ UNCHANGED << calling, call, installed, result >>

Install ==
  /\ delivered
  /\ installed' = call
  /\ UNCHANGED << calling, call, delivered, result >>

Succeed ==
  /\ calling /\ delivered /\ installed = call
  /\ calling' = FALSE /\ result' = "ok"
  /\ UNCHANGED << call, delivered, installed >>

Fail ==
  /\ calling
  /\ calling' = FALSE /\ result' = "error"
  /\ UNCHANGED << call, delivered, installed >>

Next == Update \/ Deliver \/ Install \/ Succeed \/ Fail

Spec == Init /\ [][Next]_vars
=============================================================================
