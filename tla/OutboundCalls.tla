--------------------------- MODULE OutboundCalls ---------------------------
(***************************************************************************)
(* What the callers of one station connection are promised about the      *)
(* CALLs they hand over: the station has at most one of them open at a     *)
(* time, it gets them in the order they were handed over, every CALL gets  *)
(* one verdict, and a CALL dropped from the line is never transmitted.     *)
(*                                                                         *)
(* How a CALL comes to be settled (answer, timeout, failed write) is left  *)
(* to the detailed module CallLane, which implements this one.             *)
(*                                                                         *)
(*   line     - CALLs handed over and not yet transmitted, oldest first    *)
(*   talking  - the CALL the station has open, as a set of at most one     *)
(*   verdict  - what the caller of each CALL knows                         *)
(*   heard    - the CALLs that reached the wire                            *)
(***************************************************************************)
EXTENDS Sequences, SequencesExt

CONSTANT Calls

VARIABLES line, talking, verdict, heard

ocVars == <<line, talking, verdict, heard>>

OCInit ==
    /\ line = <<>>
    /\ talking = {}
    /\ verdict = [c \in Calls |-> "new"]
    /\ heard = {}

\* A CALL joins the end of the line.
HandOver(c) ==
    /\ verdict[c] = "new"
    /\ line' = Append(line, c)
    /\ verdict' = [verdict EXCEPT ![c] = "open"]
    /\ UNCHANGED <<talking, heard>>

\* A CALL that finds nobody in front of it goes out at once.
HandOverAndTransmit(c) ==
    /\ verdict[c] = "new"
    /\ line = <<>>
    /\ talking = {}
    /\ talking' = {c}
    /\ heard' = heard \union {c}
    /\ verdict' = [verdict EXCEPT ![c] = "open"]
    /\ UNCHANGED line

\* The oldest waiting CALL goes out, only while the station has none open.
Transmit ==
    /\ line # <<>>
    /\ talking = {}
    /\ talking' = {Head(line)}
    /\ heard' = heard \union {Head(line)}
    /\ line' = Tail(line)
    /\ UNCHANGED verdict

\* The open CALL gets its verdict.
Settle(c) ==
    /\ c \in talking
    /\ talking' = {}
    /\ verdict' = [verdict EXCEPT ![c] = "settled"]
    /\ UNCHANGED <<line, heard>>

\* The caller gives up on a CALL that was not transmitted.
Drop(i) ==
    /\ i \in DOMAIN line
    /\ verdict' = [verdict EXCEPT ![line[i]] = "settled"]
    /\ line' = RemoveAt(line, i)
    /\ UNCHANGED <<talking, heard>>

\* The caller is turned away without joining the line.
Refuse(c) ==
    /\ verdict[c] = "new"
    /\ verdict' = [verdict EXCEPT ![c] = "settled"]
    /\ UNCHANGED <<line, talking, heard>>

\* The connection goes away with everything that was in line or open.
HangUp ==
    /\ verdict' = [c \in Calls |->
                     IF c \in talking \/ c \in ToSet(line) THEN "settled" ELSE verdict[c]]
    /\ line' = <<>>
    /\ talking' = {}
    /\ UNCHANGED heard

OCNext ==
    \/ \E c \in Calls : \/ HandOver(c)
                        \/ HandOverAndTransmit(c)
                        \/ Settle(c)
                        \/ Refuse(c)
    \/ \E i \in DOMAIN line : Drop(i)
    \/ Transmit
    \/ HangUp

OCSpec == OCInit /\ [][OCNext]_ocVars
=============================================================================
