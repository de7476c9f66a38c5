------------------------------- MODULE SeatPlan -------------------------------
(***************************************************************************)
(* What the two tables and the passes promise an exam, as one relation     *)
(* between students and machines: nobody has two seats and no seat two     *)
(* students, a seat is taken only by whom the roster sends there or an     *)
(* approval lets in, and an approval lets in once.                         *)
(***************************************************************************)
CONSTANTS Devices, Students, Roster, Anyone, None

VARIABLES
  sits,   \* student -> the machine he sits at, or None
  grant   \* machine -> whom the assistant lets in there: Anyone, a student, or None

vars == <<sits, grant>>

Init == sits = [s \in Students |-> None] /\ grant = [d \in Devices |-> None]

Free(d) == \A s \in Students : sits[s] # d

SitsDown(s, d) ==
  /\ sits[s] = None /\ Free(d)
  /\ grant[d] = Anyone \/ (grant[d] = None /\ Roster[s] \in {None, d})
  /\ sits' = [sits EXCEPT ![s] = d]
  /\ grant' = [grant EXCEPT ![d] = None]

SignsInAgain(s, d) ==
  /\ sits[s] = d /\ grant[d] = s
  /\ grant' = [grant EXCEPT ![d] = None]
  /\ UNCHANGED sits

\* Whoever sits there keeps the seat, or nobody sits there.
Approves(d, who) ==
  /\ \/ who = Anyone /\ Free(d)
     \/ who \in Students /\ sits[who] = d
  /\ grant' = [grant EXCEPT ![d] = who]
  /\ UNCHANGED sits

\* Only an assistant's doing; an approval he still had is for nobody else.
GetsUp(s) ==
  /\ sits[s] # None
  /\ sits' = [sits EXCEPT ![s] = None]
  /\ UNCHANGED grant

Next ==
  \/ \E s \in Students :
       GetsUp(s) \/ \E d \in Devices : SitsDown(s, d) \/ SignsInAgain(s, d)
  \/ \E d \in Devices, who \in Students \union {Anyone} : Approves(d, who)

Spec == Init /\ [][Next]_vars
===============================================================================
