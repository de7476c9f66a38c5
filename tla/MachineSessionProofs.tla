-------------------------- MODULE MachineSessionProofs --------------------------
(***************************************************************************)
(* The safety properties of MachineSession, for any number of sockets,     *)
(* keys, reports and removals, in three layers:                            *)
(*   ReportInv    a copy and the row agree on what a report says unless a  *)
(*                report came between them, so that registerKey resets     *)
(*                verdict and sequence both, or neither;                   *)
(*   PresenceInv  while nothing is blurred the handler at work is the only *)
(*                one, and what it read of the row still holds;            *)
(*   RemovedInv   a registration and a removal either do not overlap or    *)
(*                are recorded as crossed; until a removal tells the       *)
(*                machine, the row it will look at still names the         *)
(*                machine's socket.                                        *)
(***************************************************************************)
EXTENDS MachineSession, TLAPS

--------------------------------------------------------------------------------
(* Records *)

Statuses == {"UNBOUND", "AWAITING_LOGIN", "ONLINE"}

\* What past ranges over.
Pasts == [blurred : BOOLEAN, alone : SUBSET Sockets, mixed : BOOLEAN, crossed : BOOLEAN,
          heard : 0..MaxSequence, last : Sockets \union {None}, orphans : SUBSET Sockets,
          removals : 0..MaxRemovals]

RowWith(socket, online, key, bound, status, sequence, verdict) ==
  [socket |-> socket, online |-> online, key |-> key, bound |-> bound,
   status |-> status, sequence |-> sequence, verdict |-> verdict]

PastWith(blurred, alone, mixed, crossed, heard, last, orphans, removals) ==
  [blurred |-> blurred, alone |-> alone, mixed |-> mixed, crossed |-> crossed,
   heard |-> heard, last |-> last, orphans |-> orphans, removals |-> removals]

\* A row, and the history, are their fields.
LEMMA RowOf ==
  ASSUME NEW r \in Rows
  PROVE  /\ r = RowWith(r.socket, r.online, r.key, r.bound, r.status, r.sequence, r.verdict)
         /\ r.socket \in Sockets \union {None} /\ r.online \in BOOLEAN /\ r.key \in Keys
         /\ r.bound \in BOOLEAN /\ r.status \in Statuses /\ r.sequence \in 0..MaxSequence
         /\ r.verdict \in Reports \union {None}
         /\ r # None
  BY NoneAssumption DEF Rows, RowWith, Statuses

LEMMA PastOf ==
  ASSUME NEW p \in Pasts
  PROVE  /\ p = PastWith(p.blurred, p.alone, p.mixed, p.crossed, p.heard, p.last, p.orphans, p.removals)
         /\ p.blurred \in BOOLEAN /\ p.alone \subseteq Sockets /\ p.mixed \in BOOLEAN
         /\ p.crossed \in BOOLEAN /\ p.heard \in 0..MaxSequence /\ p.last \in Sockets \union {None}
         /\ p.orphans \subseteq Sockets /\ p.removals \in 0..MaxRemovals
  BY DEF Pasts, PastWith

\* The updates of several fields that the handlers make.
LEMMA SocketSet ==
  ASSUME NEW r \in Rows, NEW x, NEW y
  PROVE  [r EXCEPT !.socket = x, !.online = y] =
           RowWith(x, y, r.key, r.bound, r.status, r.sequence, r.verdict)
  <1>1. [r EXCEPT !.socket = x, !.online = y] =
          [[r EXCEPT !.socket = x] EXCEPT !.online = y]
    OBVIOUS
  <1>2. r = RowWith(r.socket, r.online, r.key, r.bound, r.status, r.sequence, r.verdict)
    BY RowOf
  <1>3. [r EXCEPT !.socket = x] = RowWith(x, r.online, r.key, r.bound, r.status, r.sequence, r.verdict)
    BY <1>2 DEF RowWith
  <1>4. [RowWith(x, r.online, r.key, r.bound, r.status, r.sequence, r.verdict) EXCEPT !.online = y] =
          RowWith(x, y, r.key, r.bound, r.status, r.sequence, r.verdict)
    BY DEF RowWith
  <1> QED BY <1>1, <1>3, <1>4

LEMMA BindingSet ==
  ASSUME NEW r \in Rows, NEW x, NEW y
  PROVE  [r EXCEPT !.bound = x, !.status = y] =
           RowWith(r.socket, r.online, r.key, x, y, r.sequence, r.verdict)
  <1>1. [r EXCEPT !.bound = x, !.status = y] =
          [[r EXCEPT !.bound = x] EXCEPT !.status = y]
    OBVIOUS
  <1>2. r = RowWith(r.socket, r.online, r.key, r.bound, r.status, r.sequence, r.verdict)
    BY RowOf
  <1>3. [r EXCEPT !.bound = x] = RowWith(r.socket, r.online, r.key, x, r.status, r.sequence, r.verdict)
    BY <1>2 DEF RowWith
  <1>4. [RowWith(r.socket, r.online, r.key, x, r.status, r.sequence, r.verdict) EXCEPT !.status = y] =
          RowWith(r.socket, r.online, r.key, x, y, r.sequence, r.verdict)
    BY DEF RowWith
  <1> QED BY <1>1, <1>3, <1>4

LEMMA VerdictSet ==
  ASSUME NEW r \in Rows, NEW x, NEW y
  PROVE  [r EXCEPT !.sequence = x, !.verdict = y] =
           RowWith(r.socket, r.online, r.key, r.bound, r.status, x, y)
  <1>1. [r EXCEPT !.sequence = x, !.verdict = y] =
          [[r EXCEPT !.sequence = x] EXCEPT !.verdict = y]
    OBVIOUS
  <1>2. r = RowWith(r.socket, r.online, r.key, r.bound, r.status, r.sequence, r.verdict)
    BY RowOf
  <1>3. [r EXCEPT !.sequence = x] = RowWith(r.socket, r.online, r.key, r.bound, r.status, x, r.verdict)
    BY <1>2 DEF RowWith
  <1>4. [RowWith(r.socket, r.online, r.key, r.bound, r.status, x, r.verdict) EXCEPT !.verdict = y] =
          RowWith(r.socket, r.online, r.key, r.bound, r.status, x, y)
    BY DEF RowWith
  <1> QED BY <1>1, <1>3, <1>4

LEMMA AloneSet ==
  ASSUME NEW p \in Pasts, NEW x, NEW y
  PROVE  [p EXCEPT !.blurred = x, !.alone = y] =
           PastWith(x, y, p.mixed, p.crossed, p.heard, p.last, p.orphans, p.removals)
  <1>1. [p EXCEPT !.blurred = x, !.alone = y] =
          [[p EXCEPT !.blurred = x] EXCEPT !.alone = y]
    OBVIOUS
  <1>2. p = PastWith(p.blurred, p.alone, p.mixed, p.crossed, p.heard, p.last, p.orphans, p.removals)
    BY PastOf
  <1>3. [p EXCEPT !.blurred = x] = PastWith(x, p.alone, p.mixed, p.crossed, p.heard, p.last, p.orphans, p.removals)
    BY <1>2 DEF PastWith
  <1>4. [PastWith(x, p.alone, p.mixed, p.crossed, p.heard, p.last, p.orphans, p.removals) EXCEPT !.alone = y] =
          PastWith(x, y, p.mixed, p.crossed, p.heard, p.last, p.orphans, p.removals)
    BY DEF PastWith
  <1> QED BY <1>1, <1>3, <1>4

LEMMA SavedSet ==
  ASSUME NEW p \in Pasts, NEW x, NEW y, NEW z
  PROVE  [p EXCEPT !.blurred = x, !.alone = y, !.last = z] =
           PastWith(x, y, p.mixed, p.crossed, p.heard, z, p.orphans, p.removals)
  <1>1. [p EXCEPT !.blurred = x, !.alone = y, !.last = z] =
          [[[p EXCEPT !.blurred = x] EXCEPT !.alone = y] EXCEPT !.last = z]
    OBVIOUS
  <1>2. p = PastWith(p.blurred, p.alone, p.mixed, p.crossed, p.heard, p.last, p.orphans, p.removals)
    BY PastOf
  <1>3. [p EXCEPT !.blurred = x] = PastWith(x, p.alone, p.mixed, p.crossed, p.heard, p.last, p.orphans, p.removals)
    BY <1>2 DEF PastWith
  <1>4. [PastWith(x, p.alone, p.mixed, p.crossed, p.heard, p.last, p.orphans, p.removals) EXCEPT !.alone = y] =
          PastWith(x, y, p.mixed, p.crossed, p.heard, p.last, p.orphans, p.removals)
    BY DEF PastWith
  <1>5. [PastWith(x, y, p.mixed, p.crossed, p.heard, p.last, p.orphans, p.removals) EXCEPT !.last = z] =
          PastWith(x, y, p.mixed, p.crossed, p.heard, z, p.orphans, p.removals)
    BY DEF PastWith
  <1> QED BY <1>1, <1>3, <1>4, <1>5

LEMMA RenewedSet ==
  ASSUME NEW p \in Pasts, NEW x, NEW y, NEW z
  PROVE  [p EXCEPT !.heard = x, !.last = y, !.mixed = z] =
           PastWith(p.blurred, p.alone, z, p.crossed, x, y, p.orphans, p.removals)
  <1>1. [p EXCEPT !.heard = x, !.last = y, !.mixed = z] =
          [[[p EXCEPT !.heard = x] EXCEPT !.last = y] EXCEPT !.mixed = z]
    OBVIOUS
  <1>2. p = PastWith(p.blurred, p.alone, p.mixed, p.crossed, p.heard, p.last, p.orphans, p.removals)
    BY PastOf
  <1>3. [p EXCEPT !.heard = x] = PastWith(p.blurred, p.alone, p.mixed, p.crossed, x, p.last, p.orphans, p.removals)
    BY <1>2 DEF PastWith
  <1>4. [PastWith(p.blurred, p.alone, p.mixed, p.crossed, x, p.last, p.orphans, p.removals) EXCEPT !.last = y] =
          PastWith(p.blurred, p.alone, p.mixed, p.crossed, x, y, p.orphans, p.removals)
    BY DEF PastWith
  <1>5. [PastWith(p.blurred, p.alone, p.mixed, p.crossed, x, y, p.orphans, p.removals) EXCEPT !.mixed = z] =
          PastWith(p.blurred, p.alone, z, p.crossed, x, y, p.orphans, p.removals)
    BY DEF PastWith
  <1> QED BY <1>1, <1>3, <1>4, <1>5

LEMMA RequestedSet ==
  ASSUME NEW p \in Pasts, NEW x, NEW y
  PROVE  [p EXCEPT !.removals = x, !.crossed = y] =
           PastWith(p.blurred, p.alone, p.mixed, y, p.heard, p.last, p.orphans, x)
  <1>1. [p EXCEPT !.removals = x, !.crossed = y] =
          [[p EXCEPT !.removals = x] EXCEPT !.crossed = y]
    OBVIOUS
  <1>2. p = PastWith(p.blurred, p.alone, p.mixed, p.crossed, p.heard, p.last, p.orphans, p.removals)
    BY PastOf
  <1>3. [p EXCEPT !.removals = x] = PastWith(p.blurred, p.alone, p.mixed, p.crossed, p.heard, p.last, p.orphans, x)
    BY <1>2 DEF PastWith
  <1>4. [PastWith(p.blurred, p.alone, p.mixed, p.crossed, p.heard, p.last, p.orphans, x) EXCEPT !.crossed = y] =
          PastWith(p.blurred, p.alone, p.mixed, y, p.heard, p.last, p.orphans, x)
    BY DEF PastWith
  <1> QED BY <1>1, <1>3, <1>4

LEMMA RestartedSet ==
  ASSUME NEW p \in Pasts, NEW x, NEW y
  PROVE  [p EXCEPT !.orphans = x, !.alone = y] =
           PastWith(p.blurred, y, p.mixed, p.crossed, p.heard, p.last, x, p.removals)
  <1>1. [p EXCEPT !.orphans = x, !.alone = y] =
          [[p EXCEPT !.orphans = x] EXCEPT !.alone = y]
    OBVIOUS
  <1>2. p = PastWith(p.blurred, p.alone, p.mixed, p.crossed, p.heard, p.last, p.orphans, p.removals)
    BY PastOf
  <1>3. [p EXCEPT !.orphans = x] = PastWith(p.blurred, p.alone, p.mixed, p.crossed, p.heard, p.last, x, p.removals)
    BY <1>2 DEF PastWith
  <1>4. [PastWith(p.blurred, p.alone, p.mixed, p.crossed, p.heard, p.last, x, p.removals) EXCEPT !.alone = y] =
          PastWith(p.blurred, y, p.mixed, p.crossed, p.heard, p.last, x, p.removals)
    BY DEF PastWith
  <1> QED BY <1>1, <1>3, <1>4

LEMMA CrossedSet ==
  ASSUME NEW p \in Pasts, NEW x
  PROVE  [p EXCEPT !.crossed = x] =
           PastWith(p.blurred, p.alone, p.mixed, x, p.heard, p.last, p.orphans, p.removals)
  <1>1. [p EXCEPT !.crossed = x] =
          [p EXCEPT !.crossed = x]
    OBVIOUS
  <1>2. p = PastWith(p.blurred, p.alone, p.mixed, p.crossed, p.heard, p.last, p.orphans, p.removals)
    BY PastOf
  <1>3. [p EXCEPT !.crossed = x] = PastWith(p.blurred, p.alone, p.mixed, x, p.heard, p.last, p.orphans, p.removals)
    BY <1>2 DEF PastWith
  <1> QED BY <1>1, <1>3

LEMMA OrphansSet ==
  ASSUME NEW p \in Pasts, NEW x
  PROVE  [p EXCEPT !.orphans = x] =
           PastWith(p.blurred, p.alone, p.mixed, p.crossed, p.heard, p.last, x, p.removals)
  <1>1. p = PastWith(p.blurred, p.alone, p.mixed, p.crossed, p.heard, p.last, p.orphans, p.removals)
    BY PastOf
  <1> QED BY <1>1 DEF PastWith

LEMMA HeardSet ==
  ASSUME NEW p \in Pasts, NEW x
  PROVE  [p EXCEPT !.heard = x] =
           PastWith(p.blurred, p.alone, p.mixed, p.crossed, x, p.last, p.orphans, p.removals)
  <1>1. [p EXCEPT !.heard = x] =
          [p EXCEPT !.heard = x]
    OBVIOUS
  <1>2. p = PastWith(p.blurred, p.alone, p.mixed, p.crossed, p.heard, p.last, p.orphans, p.removals)
    BY PastOf
  <1>3. [p EXCEPT !.heard = x] = PastWith(p.blurred, p.alone, p.mixed, p.crossed, x, p.last, p.orphans, p.removals)
    BY <1>2 DEF PastWith
  <1> QED BY <1>1, <1>3

--------------------------------------------------------------------------------
(* What the operators of the handlers do to the fields *)

Machines == [key : Keys, token : Keys \union {None}]

\* p and q differ in no field but those named here.
SameButAlone(p, q) ==
  /\ q.mixed = p.mixed /\ q.crossed = p.crossed /\ q.heard = p.heard /\ q.last = p.last
  /\ q.orphans = p.orphans /\ q.removals = p.removals
SameButCrossed(p, q) ==
  /\ q.blurred = p.blurred /\ q.alone = p.alone /\ q.mixed = p.mixed /\ q.heard = p.heard
  /\ q.last = p.last /\ q.orphans = p.orphans /\ q.removals = p.removals
SameButHeard(p, q) ==
  /\ q.blurred = p.blurred /\ q.alone = p.alone /\ q.mixed = p.mixed /\ q.crossed = p.crossed
  /\ q.last = p.last /\ q.orphans = p.orphans /\ q.removals = p.removals

LEMMA PastIs ==
  ASSUME NEW a \in BOOLEAN, NEW b \in SUBSET Sockets, NEW c \in BOOLEAN, NEW d \in BOOLEAN,
         NEW e \in 0..MaxSequence, NEW f \in Sockets \union {None}, NEW g \in SUBSET Sockets,
         NEW h \in 0..MaxRemovals
  PROVE  /\ PastWith(a, b, c, d, e, f, g, h) \in Pasts
         /\ PastWith(a, b, c, d, e, f, g, h).blurred = a /\ PastWith(a, b, c, d, e, f, g, h).alone = b
         /\ PastWith(a, b, c, d, e, f, g, h).mixed = c /\ PastWith(a, b, c, d, e, f, g, h).crossed = d
         /\ PastWith(a, b, c, d, e, f, g, h).heard = e /\ PastWith(a, b, c, d, e, f, g, h).last = f
         /\ PastWith(a, b, c, d, e, f, g, h).orphans = g /\ PastWith(a, b, c, d, e, f, g, h).removals = h
  BY DEF Pasts, PastWith

LEMMA RowIs ==
  ASSUME NEW a \in Sockets \union {None}, NEW b \in BOOLEAN, NEW c \in Keys, NEW d \in BOOLEAN,
         NEW e \in Statuses, NEW f \in 0..MaxSequence, NEW g \in Reports \union {None}
  PROVE  /\ RowWith(a, b, c, d, e, f, g) \in Rows
         /\ RowWith(a, b, c, d, e, f, g).socket = a /\ RowWith(a, b, c, d, e, f, g).online = b
         /\ RowWith(a, b, c, d, e, f, g).key = c /\ RowWith(a, b, c, d, e, f, g).bound = d
         /\ RowWith(a, b, c, d, e, f, g).status = e /\ RowWith(a, b, c, d, e, f, g).sequence = f
         /\ RowWith(a, b, c, d, e, f, g).verdict = g
  BY DEF Rows, RowWith, Statuses

LEMMA ReadsTo ==
  ASSUME past \in Pasts, NEW who \in SUBSET Sockets
  PROVE  /\ Reads(who) \in Pasts
         /\ Reads(who).blurred <=> past.blurred \/ ~ Alone
         /\ Reads(who).alone = IF Alone THEN who ELSE {}
         /\ SameButAlone(past, Reads(who))
  <1> DEFINE blurs == past.blurred \/ ~ Alone
             names == IF Alone THEN who ELSE {}
  <1>1. Reads(who) = PastWith(blurs, names, past.mixed, past.crossed, past.heard, past.last,
                              past.orphans, past.removals)
    BY AloneSet DEF Reads
  <1>2. blurs \in BOOLEAN /\ names \in SUBSET Sockets
    OBVIOUS
  <1>3. (Reads(who).blurred <=> blurs) <=> (Reads(who).blurred <=> past.blurred \/ ~ Alone)
    OBVIOUS
  <1>4. names = IF Alone THEN who ELSE {}
    OBVIOUS
  <1> HIDE DEF blurs, names
  <1>5. /\ Reads(who) \in Pasts /\ Reads(who).blurred = blurs /\ Reads(who).alone = names
        /\ SameButAlone(past, Reads(who))
    BY <1>1, <1>2, PastOf, PastIs DEF SameButAlone
  <1> QED BY <1>2, <1>3, <1>4, <1>5

LEMMA CrossesTo ==
  ASSUME NEW p \in Pasts
  PROVE  /\ Crosses(p) \in Pasts
         /\ Crosses(p).crossed <=> p.crossed \/ removal # NoRemoval
         /\ SameButCrossed(p, Crosses(p))
  <1> DEFINE crosses == p.crossed \/ removal # NoRemoval
  <1>1. Crosses(p) = PastWith(p.blurred, p.alone, p.mixed, crosses, p.heard, p.last, p.orphans, p.removals)
    BY CrossedSet DEF Crosses
  <1>2. crosses \in BOOLEAN
    OBVIOUS
  <1>3. (Crosses(p).crossed <=> crosses) <=> (Crosses(p).crossed <=> p.crossed \/ removal # NoRemoval)
    OBVIOUS
  <1> HIDE DEF crosses
  <1>4. /\ Crosses(p) \in Pasts /\ Crosses(p).crossed = crosses
        /\ SameButCrossed(p, Crosses(p))
    BY <1>1, <1>2, PastOf, PastIs DEF SameButCrossed
  <1> QED BY <1>2, <1>3, <1>4

LEMMA ToldPastTo ==
  ASSUME NEW p \in Pasts, NEW s
  PROVE  /\ ToldPast(p, s) \in Pasts
         /\ ToldPast(p, s).crossed <=> s \notin live /\ p.crossed
         /\ SameButCrossed(p, ToldPast(p, s))
  <1>1. CASE s \in live
    <2>1. ToldPast(p, s) = PastWith(p.blurred, p.alone, p.mixed, FALSE, p.heard, p.last, p.orphans, p.removals)
      BY <1>1, CrossedSet DEF ToldPast
    <2> QED BY <1>1, <2>1, PastOf DEF SameButCrossed, PastWith, Pasts
  <1>2. CASE s \notin live
    BY <1>2, PastOf DEF ToldPast, SameButCrossed
  <1> QED BY <1>1, <1>2

LEMMA ToldTo ==
  ASSUME machine \in Machines, NEW s
  PROVE  /\ Told(s) \in Machines /\ Told(s).key = machine.key
         /\ Told(s).token = IF s \in live THEN None ELSE machine.token
  <1>1. machine = [key |-> machine.key, token |-> machine.token]
    BY DEF Machines
  <1> QED BY <1>1 DEF Told, Machines
--------------------------------------------------------------------------------
(* What the actions do, field by field *)

Regs == [at : {"idle", "check", "save"}, online : BOOLEAN, fits : BOOLEAN, signed : BOOLEAN]
Offs == [at : {"never", "open", "due", "save", "over"}, online : BOOLEAN]

\* The steps a removal may have left.
Lefts == {<<>>,
  <<"look", "tell", "clear", "unseat">>, <<"tell", "clear", "unseat">>, <<"clear", "unseat">>, <<"unseat">>,
  <<"seat", "look", "tell", "clear">>, <<"look", "tell", "clear">>, <<"tell", "clear">>, <<"clear">>,
  <<"call", "look", "tellOnline", "seat", "destroy">>, <<"look", "tellOnline", "seat", "destroy">>,
  <<"tellOnline", "seat", "destroy">>, <<"seat", "destroy">>, <<"destroy">>}

\* The types TypeOK gives, and those of the history and of a removal.
RangeInv ==
  /\ row \in Rows \union {None} /\ seat \in BOOLEAN /\ live \subseteq Sockets
  /\ reg \in [Sockets -> Regs] /\ off \in [Sockets -> Offs]
  /\ reKey \in [at : {"idle", "save"}, seen : Copies \union {None}]
  /\ removal \in [left : Lefts, seen : Seen] /\ (removal.left = <<>> => removal = NoRemoval)
  /\ machine \in Machines
  /\ past \in Pasts

SameButPlace(r, q) ==
  /\ q.key = r.key /\ q.bound = r.bound /\ q.status = r.status /\ q.sequence = r.sequence
  /\ q.verdict = r.verdict
SameButBinding(r, q) ==
  /\ q.socket = r.socket /\ q.online = r.online /\ q.key = r.key /\ q.sequence = r.sequence
  /\ q.verdict = r.verdict

LEMMA SavesTo ==
  ASSUME RangeInv, NEW s \in Sockets, RegisterSaves(s)
  PROVE  /\ row = None => row' = None /\ past'.last = past.last
         /\ row # None => /\ row' \in Rows /\ row'.socket = s
                          /\ row'.online <=> row.online \/ ~ reg[s].online
                          /\ SameButPlace(row, row') /\ past'.last = s
         /\ past' \in Pasts /\ past'.alone = {}
         /\ past'.blurred <=> past.blurred /\ s \notin past.alone
         /\ past'.mixed = past.mixed /\ past'.crossed = past.crossed /\ past'.heard = past.heard
         /\ past'.orphans = past.orphans /\ past'.removals = past.removals
  <1>1. row = None => row' = None
    BY DEF RegisterSaves, Writes
  <1>2. ASSUME row # None
        PROVE  /\ row' \in Rows /\ row'.socket = s
               /\ row'.online <=> row.online \/ ~ reg[s].online
               /\ SameButPlace(row, row')
    <2> DEFINE o == IF reg[s].online THEN row.online ELSE TRUE
    <2>1. row \in Rows
      BY <1>2 DEF RangeInv
    <2>2. row' = RowWith(s, o, row.key, row.bound, row.status, row.sequence, row.verdict)
      BY <1>2, <2>1, SocketSet DEF RegisterSaves, Writes
    <2>3. o \in BOOLEAN /\ (o <=> row.online \/ ~ reg[s].online)
      BY <2>1, RowOf DEF RangeInv, Regs
    <2> HIDE DEF o
    <2>4. row' \in Rows /\ row'.socket = s /\ row'.online = o /\ SameButPlace(row, row')
      BY <2>1, <2>2, <2>3, RowOf, RowIs DEF SameButPlace
    <2> QED BY <2>3, <2>4
  <1> DEFINE b == past.blurred /\ s \notin past.alone
             l == IF row = None THEN past.last ELSE s
  <1>3. past' = PastWith(b, {}, past.mixed, past.crossed, past.heard, l, past.orphans, past.removals)
    BY SavedSet DEF RegisterSaves, RangeInv
  <1>4. b \in BOOLEAN /\ {} \in SUBSET Sockets /\ l \in Sockets \union {None}
    BY PastOf DEF RangeInv
  <1>5. (b <=> past.blurred /\ s \notin past.alone) /\ (row = None => l = past.last) /\ (row # None => l = s)
    OBVIOUS
  <1> HIDE DEF b, l
  <1>6. /\ past' \in Pasts /\ past'.blurred = b /\ past'.alone = {} /\ past'.last = l
        /\ past'.mixed = past.mixed /\ past'.crossed = past.crossed /\ past'.heard = past.heard
        /\ past'.orphans = past.orphans /\ past'.removals = past.removals
    <2>1. past \in Pasts
      BY DEF RangeInv
    <2> QED BY <1>3, <1>4, <2>1, PastOf, PastIs
  <1> QED BY <1>1, <1>2, <1>5, <1>6

LEMMA LeavesTo ==
  ASSUME RangeInv, NEW s \in Sockets, DisconnectSaves(s), row # None
  PROVE  /\ row' \in Rows /\ row'.socket = None /\ SameButPlace(row, row')
  <1> DEFINE o == IF off[s].online THEN FALSE ELSE row.online
  <1>1. row \in Rows
    BY DEF RangeInv
  <1>2. row' = RowWith(None, o, row.key, row.bound, row.status, row.sequence, row.verdict)
    BY <1>1, SocketSet DEF DisconnectSaves, Writes
  <1>3. o \in BOOLEAN /\ None \in Sockets \union {None}
    BY <1>1, RowOf
  <1> HIDE DEF o
  <1>4. /\ row.key \in Keys /\ row.bound \in BOOLEAN /\ row.status \in Statuses
        /\ row.sequence \in 0..MaxSequence /\ row.verdict \in Reports \union {None}
    BY <1>1, RowOf
  <1> QED BY <1>2, <1>3, <1>4 DEF SameButPlace, RowWith, Rows, Statuses

LEMMA ReportsTo ==
  ASSUME RangeInv, NEW m \in Reports, ReportLands(m)
  PROVE  /\ ~ Accepts(m) => row' = row
         /\ Accepts(m) => /\ row' \in Rows /\ row'.sequence = m.sequence /\ row'.verdict = m
                          /\ row'.socket = row.socket /\ row'.online = row.online /\ row'.key = row.key
                          /\ row'.bound = row.bound /\ row'.status = row.status
         /\ past' \in Pasts /\ SameButHeard(past, past')
         /\ past'.heard = IF row # None /\ row.key = m.key /\ past.heard < m.sequence
                          THEN m.sequence ELSE past.heard
  <1>1. ~ Accepts(m) => row' = row
    BY DEF ReportLands
  <1>2. ASSUME Accepts(m)
        PROVE  /\ row' \in Rows /\ row'.sequence = m.sequence /\ row'.verdict = m
               /\ row'.socket = row.socket /\ row'.online = row.online /\ row'.key = row.key
               /\ row'.bound = row.bound /\ row'.status = row.status
    <2>1. row \in Rows
      BY <1>2 DEF RangeInv, Accepts
    <2>2. row' = RowWith(row.socket, row.online, row.key, row.bound, row.status, m.sequence, m)
      BY <1>2, <2>1, VerdictSet DEF ReportLands
    <2>3. m.sequence \in 0..MaxSequence
      BY BoundsAssumption DEF Reports
    <2>4. /\ row.socket \in Sockets \union {None} /\ row.online \in BOOLEAN /\ row.key \in Keys
          /\ row.bound \in BOOLEAN /\ row.status \in Statuses /\ m \in Reports \union {None}
      BY <2>1, RowOf
    <2> QED BY <2>2, <2>3, <2>4 DEF RowWith, Rows, Statuses
  <1> DEFINE n == IF row # None /\ row.key = m.key /\ past.heard < m.sequence THEN m.sequence ELSE past.heard
  <1>3. past' = PastWith(past.blurred, past.alone, past.mixed, past.crossed, n, past.last, past.orphans,
                         past.removals)
    BY HeardSet DEF ReportLands, RangeInv
  <1>4. n \in 0..MaxSequence
    <2>1. m.sequence \in 0..MaxSequence
      BY BoundsAssumption DEF Reports
    <2> QED BY <2>1, PastOf DEF RangeInv
  <1>5. (past'.heard = n) <=> (past'.heard = IF row # None /\ row.key = m.key /\ past.heard < m.sequence
                                             THEN m.sequence ELSE past.heard)
    OBVIOUS
  <1> HIDE DEF n
  <1>6. past' \in Pasts /\ SameButHeard(past, past') /\ past'.heard = n
    <2>1. past \in Pasts
      BY DEF RangeInv
    <2> QED BY <1>3, <1>4, <2>1, PastOf, PastIs DEF SameButHeard
  <1> QED BY <1>1, <1>2, <1>5, <1>6
LEMMA KeySavesTo ==
  ASSUME RangeInv, KeySaves
  PROVE  /\ reKey' = [at |-> "idle", seen |-> None]
         /\ past' \in Pasts /\ past'.heard = 0 /\ past'.last = (IF row = None THEN None ELSE past.last)
         /\ past'.mixed <=> row # None /\ reKey.seen # None /\ row.verdict # reKey.seen.verdict
         /\ past'.blurred = past.blurred /\ past'.alone = past.alone /\ past'.crossed = past.crossed
         /\ past'.orphans = past.orphans /\ past'.removals = past.removals
         /\ row = None /\ reKey.seen = None => row' = Created(machine.key)
         /\ row = None /\ reKey.seen # None => row' = None
         /\ row # None /\ reKey.seen = None => row' = row
         /\ row # None /\ reKey.seen # None =>
              /\ row' \in Rows /\ row'.key = machine.key /\ row'.socket = row.socket /\ row'.bound = row.bound
              /\ row'.online <=> row.online \/ ~ reKey.seen.online
              /\ row'.sequence = IF reKey.seen.sequence = 0 THEN row.sequence ELSE 0
              /\ row'.verdict = IF reKey.seen.verdict = None THEN row.verdict ELSE None
  <1>1. reKey' = [at |-> "idle", seen |-> None]
    BY DEF KeySaves
  <1>2. /\ row = None /\ reKey.seen = None => row' = Created(machine.key)
        /\ row = None /\ reKey.seen # None => row' = None
        /\ row # None /\ reKey.seen = None => row' = row
    BY DEF KeySaves, Writes
  <1>3. ASSUME row # None, reKey.seen # None
        PROVE  /\ row' \in Rows /\ row'.key = machine.key /\ row'.socket = row.socket /\ row'.bound = row.bound
               /\ row'.online <=> row.online \/ ~ reKey.seen.online
               /\ row'.sequence = IF reKey.seen.sequence = 0 THEN row.sequence ELSE 0
               /\ row'.verdict = IF reKey.seen.verdict = None THEN row.verdict ELSE None
    <2> DEFINE c == reKey.seen
               n == IF c.sequence = 0 THEN row.sequence ELSE 0
               v == IF c.verdict = None THEN row.verdict ELSE None
               o == IF c.online THEN row.online ELSE TRUE
               w == IF c.bound THEN "AWAITING_LOGIN" ELSE "UNBOUND"
               u == IF c.status = w THEN row.status ELSE w
    <2>1. row \in Rows /\ machine.key \in Keys
      BY <1>3 DEF RangeInv, Machines
    <2>2. row' = Renews(machine.key, c)
      BY <1>3 DEF KeySaves, Writes
    <2>3. row' = RowWith(row.socket, o, machine.key, row.bound, u, n, v)
      <3>1. Renews(machine.key, c) = [row EXCEPT !.key = machine.key, !.sequence = n, !.verdict = v,
                                                 !.online = o, !.status = u]
        BY DEF Renews
      <3> HIDE DEF n, v, o, u
      <3>2. [row EXCEPT !.key = machine.key, !.sequence = n, !.verdict = v, !.online = o, !.status = u] =
              RowWith(row.socket, o, machine.key, row.bound, u, n, v)
        <4>1. [row EXCEPT !.key = machine.key, !.sequence = n, !.verdict = v, !.online = o, !.status = u] =
                [[[[[row EXCEPT !.key = machine.key] EXCEPT !.sequence = n] EXCEPT !.verdict = v] EXCEPT !.online = o] EXCEPT !.status = u]
          OBVIOUS
        <4>2. row = RowWith(row.socket, row.online, row.key, row.bound, row.status, row.sequence, row.verdict)
          BY <2>1, RowOf
        <4>3. [row EXCEPT !.key = machine.key] = RowWith(row.socket, row.online, machine.key, row.bound, row.status, row.sequence, row.verdict)
          BY <4>2 DEF RowWith
        <4>4. [RowWith(row.socket, row.online, machine.key, row.bound, row.status, row.sequence, row.verdict) EXCEPT !.sequence = n] =
                RowWith(row.socket, row.online, machine.key, row.bound, row.status, n, row.verdict)
          BY DEF RowWith
        <4>5. [RowWith(row.socket, row.online, machine.key, row.bound, row.status, n, row.verdict) EXCEPT !.verdict = v] =
                RowWith(row.socket, row.online, machine.key, row.bound, row.status, n, v)
          BY DEF RowWith
        <4>6. [RowWith(row.socket, row.online, machine.key, row.bound, row.status, n, v) EXCEPT !.online = o] =
                RowWith(row.socket, o, machine.key, row.bound, row.status, n, v)
          BY DEF RowWith
        <4>7. [RowWith(row.socket, o, machine.key, row.bound, row.status, n, v) EXCEPT !.status = u] =
                RowWith(row.socket, o, machine.key, row.bound, u, n, v)
          BY DEF RowWith
        <4>8. [[[row EXCEPT !.key = machine.key] EXCEPT !.sequence = n] EXCEPT !.verdict = v] =
                RowWith(row.socket, row.online, machine.key, row.bound, row.status, n, v)
          BY <4>3, <4>4, <4>5
        <4> QED BY <4>1, <4>6, <4>7, <4>8
      <3> QED BY <2>2, <3>1, <3>2
    <2>4. /\ row.socket \in Sockets \union {None} /\ row.bound \in BOOLEAN
          /\ row.status \in Statuses /\ row.sequence \in 0..MaxSequence /\ row.online \in BOOLEAN
          /\ row.verdict \in Reports \union {None}
      BY <2>1, RowOf
    <2>5. n \in 0..MaxSequence /\ v \in Reports \union {None} /\ u \in Statuses
      BY <2>4, BoundsAssumption DEF Statuses
    <2>6. o \in BOOLEAN /\ (o <=> row.online \/ ~ c.online)
      BY <1>3, <2>4 DEF RangeInv, Copies
    <2> DEFINE r == RowWith(row.socket, o, machine.key, row.bound, u, n, v)
    <2>7. /\ (n = IF reKey.seen.sequence = 0 THEN row.sequence ELSE 0)
          /\ (v = IF reKey.seen.verdict = None THEN row.verdict ELSE None)
      OBVIOUS
    <2> HIDE DEF n, v, o, u
    <2>8. /\ r \in Rows /\ r.socket = row.socket /\ r.online = o /\ r.key = machine.key
          /\ r.bound = row.bound /\ r.sequence = n /\ r.verdict = v
      BY <2>1, <2>4, <2>5, <2>6, RowIs
    <2> QED BY <2>3, <2>6, <2>7, <2>8
  <1> DEFINE m == row # None /\ reKey.seen # None /\ row.verdict # reKey.seen.verdict
             l == IF row = None THEN None ELSE past.last
  <1>4. past' = PastWith(past.blurred, past.alone, m, past.crossed, 0, l, past.orphans, past.removals)
    <2>1. past' = [past EXCEPT !.heard = 0, !.last = l, !.mixed = m]
      BY DEF KeySaves
    <2>2. past \in Pasts
      BY DEF RangeInv
    <2> HIDE DEF l, m
    <2>3. [past EXCEPT !.heard = 0, !.last = l, !.mixed = m] =
            PastWith(past.blurred, past.alone, m, past.crossed, 0, l, past.orphans, past.removals)
      BY <2>2, RenewedSet
    <2> QED BY <2>1, <2>3
  <1>5. m \in BOOLEAN /\ l \in Sockets \union {None} /\ 0 \in 0..MaxSequence
    BY PastOf, BoundsAssumption DEF RangeInv
  <1>6. /\ m <=> row # None /\ reKey.seen # None /\ row.verdict # reKey.seen.verdict
        /\ l = IF row = None THEN None ELSE past.last
    OBVIOUS
  <1> HIDE DEF m, l
  <1>7. /\ past' \in Pasts /\ past'.heard = 0 /\ past'.last = l /\ past'.mixed = m
        /\ past'.blurred = past.blurred /\ past'.alone = past.alone /\ past'.crossed = past.crossed
        /\ past'.orphans = past.orphans /\ past'.removals = past.removals
    <2>1. past \in Pasts
      BY DEF RangeInv
    <2> QED BY <1>4, <1>5, <2>1, PastOf, PastIs
  <1>8. /\ past' \in Pasts /\ past'.heard = 0 /\ past'.last = (IF row = None THEN None ELSE past.last)
        /\ past'.mixed <=> row # None /\ reKey.seen # None /\ row.verdict # reKey.seen.verdict
        /\ past'.blurred = past.blurred /\ past'.alone = past.alone /\ past'.crossed = past.crossed
        /\ past'.orphans = past.orphans /\ past'.removals = past.removals
    BY <1>6, <1>7
  <1> QED BY <1>1, <1>2, <1>3, <1>8

LEMMA CreatedIs ==
  ASSUME NEW k \in Keys
  PROVE  /\ Created(k) \in Rows /\ Created(k).key = k /\ Created(k).socket = None /\ Created(k).bound = FALSE
         /\ Created(k).sequence = 0 /\ Created(k).verdict = None
  BY BoundsAssumption DEF Created, Rows

LEMMA CopyIs ==
  ASSUME NEW r \in Rows
  PROVE  /\ Copy(r) \in Copies /\ Copy(r) # None
         /\ Copy(r).sequence = r.sequence /\ Copy(r).verdict = r.verdict /\ Copy(r).online = r.online
  <1>1. Copy(r) \in Copies
    BY RowOf DEF Copy, Copies, Statuses
  <1> QED BY <1>1, NoneAssumption DEF Copy

LEMMA SignsInTo ==
  ASSUME RangeInv, SignsIn
  PROVE  /\ row # None /\ row.key = machine.key /\ machine.token = None /\ row' \in Rows
         /\ row'.bound = TRUE /\ row'.status = "ONLINE" /\ SameButBinding(row, row') /\ seat' = TRUE
         /\ machine' \in Machines /\ machine'.key = machine.key /\ machine'.token = machine.key
         /\ past' \in Pasts /\ (past'.crossed <=> past.crossed \/ removal # NoRemoval)
         /\ SameButCrossed(past, past')
  <1>1. row # None /\ row.key = machine.key /\ machine.token = None /\ seat' = TRUE /\ row \in Rows
    BY DEF SignsIn, Registered, RangeInv
  <1>2. row' = RowWith(row.socket, row.online, row.key, TRUE, "ONLINE", row.sequence, row.verdict)
    BY <1>1, BindingSet DEF SignsIn
  <1>3. /\ row.socket \in Sockets \union {None} /\ row.online \in BOOLEAN /\ row.key \in Keys
        /\ row.sequence \in 0..MaxSequence /\ row.verdict \in Reports \union {None}
        /\ "ONLINE" \in Statuses /\ TRUE \in BOOLEAN
    BY <1>1, RowOf DEF Statuses
  <1>5. row' \in Rows /\ row'.bound = TRUE /\ row'.status = "ONLINE" /\ SameButBinding(row, row')
    BY <1>2, <1>3 DEF SameButBinding, RowWith, Rows, Statuses
  <1>6. machine' \in Machines /\ machine'.key = machine.key /\ machine'.token = machine.key
    <2>1. machine = [key |-> machine.key, token |-> machine.token] /\ machine.key \in Keys
      BY DEF RangeInv, Machines
    <2>2. machine' = [machine EXCEPT !.token = machine.key]
      BY DEF SignsIn
    <2> QED BY <2>1, <2>2 DEF Machines
  <1>7. /\ past' \in Pasts /\ (past'.crossed <=> past.crossed \/ removal # NoRemoval)
        /\ SameButCrossed(past, past')
    BY CrossesTo DEF SignsIn, RangeInv
  <1> QED BY <1>1, <1>5, <1>6, <1>7
--------------------------------------------------------------------------------
(* The steps of a removal *)

LooksOn(left) ==
  /\ removal' = IF row = None THEN NoRemoval ELSE [left |-> left, seen |-> Looked(left)]
  /\ UNCHANGED <<row, seat, machine, past>>
GoesOn(left) == removal' = IF left = <<>> THEN NoRemoval ELSE [removal EXCEPT !.left = left]

\* What a request does next, by what it has left.
Steps ==
  \/ removal.left = <<"look", "tell", "clear", "unseat">>
     /\ LooksOn(<<"tell", "clear", "unseat">>)
  \/ removal.left = <<"tell", "clear", "unseat">>
     /\ GoesOn(<<"clear", "unseat">>) /\ Tells(removal.seen.reached) /\ UNCHANGED <<row, seat>>
  \/ removal.left = <<"clear", "unseat">>
     /\ GoesOn(<<"unseat">>) /\ Writes(Unbinds(removal.seen)) /\ UNCHANGED <<seat, machine, past>>
  \/ removal.left = <<"unseat">>
     /\ GoesOn(<<>>) /\ seat' = (seat /\ ~ removal.seen.seat) /\ UNCHANGED <<row, machine, past>>
  \/ removal.left = <<"seat", "look", "tell", "clear">>
     /\ GoesOn(<<"look", "tell", "clear">>) /\ seat' = FALSE /\ UNCHANGED <<row, machine, past>>
  \/ removal.left = <<"look", "tell", "clear">>
     /\ LooksOn(<<"tell", "clear">>)
  \/ removal.left = <<"tell", "clear">>
     /\ GoesOn(<<"clear">>) /\ Tells(removal.seen.reached) /\ UNCHANGED <<row, seat>>
  \/ removal.left = <<"clear">>
     /\ GoesOn(<<>>) /\ Writes(Unbinds(removal.seen)) /\ UNCHANGED <<seat, machine, past>>
  \/ removal.left = <<"call", "look", "tellOnline", "seat", "destroy">>
     /\ GoesOn(<<"look", "tellOnline", "seat", "destroy">>) /\ Tells(TRUE) /\ UNCHANGED <<row, seat>>
  \/ removal.left = <<"look", "tellOnline", "seat", "destroy">>
     /\ LooksOn(<<"tellOnline", "seat", "destroy">>)
  \/ removal.left = <<"tellOnline", "seat", "destroy">>
     /\ GoesOn(<<"seat", "destroy">>) /\ Tells(removal.seen.status = "ONLINE") /\ UNCHANGED <<row, seat>>
  \/ removal.left = <<"seat", "destroy">>
     /\ GoesOn(<<"destroy">>) /\ seat' = FALSE /\ UNCHANGED <<row, machine, past>>
  \/ removal.left = <<"destroy">>
     /\ GoesOn(<<>>) /\ row' = None /\ past' = [past EXCEPT !.heard = 0] /\ UNCHANGED <<seat, machine>>

LEMMA StepsOf ==
  ASSUME RangeInv, RemovalStep
  PROVE  Steps
  <1> DEFINE step == Head(removal.left)
             left == Tail(removal.left)
  <1>1. removal.left \in Lefts /\ removal.left # <<>>
    BY DEF RangeInv, RemovalStep
  <1>2. \/ /\ step = "look" /\ LooksOn(left)
        \/ /\ step \in {"call", "tell", "tellOnline"} /\ GoesOn(left) /\ Tells(Wanted(step))
           /\ UNCHANGED <<row, seat>>
        \/ step = "seat" /\ GoesOn(left) /\ seat' = FALSE /\ UNCHANGED <<row, machine, past>>
        \/ /\ step = "unseat" /\ GoesOn(left) /\ seat' = (seat /\ ~ removal.seen.seat)
           /\ UNCHANGED <<row, machine, past>>
        \/ /\ step = "clear" /\ GoesOn(left) /\ Writes(Unbinds(removal.seen))
           /\ UNCHANGED <<seat, machine, past>>
        \/ /\ step = "destroy" /\ GoesOn(left) /\ row' = None /\ past' = [past EXCEPT !.heard = 0]
           /\ UNCHANGED <<seat, machine>>
    BY DEF RemovalStep, LooksOn, GoesOn
  <1>3. CASE removal.left = <<"look", "tell", "clear", "unseat">>
    <2>1. step = "look" /\ left = <<"tell", "clear", "unseat">>
      BY <1>3
    <2> HIDE DEF step, left
    <2> QED BY <1>2, <1>3, <2>1 DEF Steps
  <1>4. CASE removal.left = <<"tell", "clear", "unseat">>
    <2>1. step = "tell" /\ left = <<"clear", "unseat">>
      BY <1>4
    <2>2. Wanted("tell") = removal.seen.reached
      BY DEF Wanted
    <2> HIDE DEF step, left
    <2> QED BY <1>2, <1>4, <2>1, <2>2 DEF Steps
  <1>5. CASE removal.left = <<"clear", "unseat">>
    <2>1. step = "clear" /\ left = <<"unseat">>
      BY <1>5
    <2> HIDE DEF step, left
    <2> QED BY <1>2, <1>5, <2>1 DEF Steps
  <1>6. CASE removal.left = <<"unseat">>
    <2>1. step = "unseat" /\ left = <<>>
      BY <1>6
    <2> HIDE DEF step, left
    <2> QED BY <1>2, <1>6, <2>1 DEF Steps
  <1>7. CASE removal.left = <<"seat", "look", "tell", "clear">>
    <2>1. step = "seat" /\ left = <<"look", "tell", "clear">>
      BY <1>7
    <2> HIDE DEF step, left
    <2> QED BY <1>2, <1>7, <2>1 DEF Steps
  <1>8. CASE removal.left = <<"look", "tell", "clear">>
    <2>1. step = "look" /\ left = <<"tell", "clear">>
      BY <1>8
    <2> HIDE DEF step, left
    <2> QED BY <1>2, <1>8, <2>1 DEF Steps
  <1>9. CASE removal.left = <<"tell", "clear">>
    <2>1. step = "tell" /\ left = <<"clear">>
      BY <1>9
    <2>2. Wanted("tell") = removal.seen.reached
      BY DEF Wanted
    <2> HIDE DEF step, left
    <2> QED BY <1>2, <1>9, <2>1, <2>2 DEF Steps
  <1>10. CASE removal.left = <<"clear">>
    <2>1. step = "clear" /\ left = <<>>
      BY <1>10
    <2> HIDE DEF step, left
    <2> QED BY <1>2, <1>10, <2>1 DEF Steps
  <1>11. CASE removal.left = <<"call", "look", "tellOnline", "seat", "destroy">>
    <2>1. step = "call" /\ left = <<"look", "tellOnline", "seat", "destroy">>
      BY <1>11
    <2>2. Wanted("call") = TRUE
      BY DEF Wanted
    <2> HIDE DEF step, left
    <2> QED BY <1>2, <1>11, <2>1, <2>2 DEF Steps
  <1>12. CASE removal.left = <<"look", "tellOnline", "seat", "destroy">>
    <2>1. step = "look" /\ left = <<"tellOnline", "seat", "destroy">>
      BY <1>12
    <2> HIDE DEF step, left
    <2> QED BY <1>2, <1>12, <2>1 DEF Steps
  <1>13. CASE removal.left = <<"tellOnline", "seat", "destroy">>
    <2>1. step = "tellOnline" /\ left = <<"seat", "destroy">>
      BY <1>13
    <2>2. Wanted("tellOnline") = (removal.seen.status = "ONLINE")
      BY DEF Wanted
    <2> HIDE DEF step, left
    <2> QED BY <1>2, <1>13, <2>1, <2>2 DEF Steps
  <1>14. CASE removal.left = <<"seat", "destroy">>
    <2>1. step = "seat" /\ left = <<"destroy">>
      BY <1>14
    <2> HIDE DEF step, left
    <2> QED BY <1>2, <1>14, <2>1 DEF Steps
  <1>15. CASE removal.left = <<"destroy">>
    <2>1. step = "destroy" /\ left = <<>>
      BY <1>15
    <2> HIDE DEF step, left
    <2> QED BY <1>2, <1>15, <2>1 DEF Steps
  <1> QED BY <1>1, <1>3, <1>4, <1>5, <1>6, <1>7, <1>8, <1>9, <1>10, <1>11, <1>12, <1>13, <1>14, <1>15 DEF Lefts

LEMMA NothingIs == NoRemoval \in [left : Lefts, seen : Seen] /\ NoRemoval.left = <<>>
  BY DEF NoRemoval, Nothing, Seen, Lefts

LEMMA LooksTo ==
  ASSUME RangeInv, NEW left \in Lefts, left # <<>>, LooksOn(left)
  PROVE  /\ removal' \in [left : Lefts, seen : Seen] /\ (removal'.left = <<>> => removal' = NoRemoval)
         /\ row = None => removal' = NoRemoval
         /\ row # None =>
              /\ removal'.left = left /\ removal'.seen.status = row.status
              /\ left \in {<<"tell", "clear", "unseat">>, <<"tell", "clear">>} =>
                   /\ removal'.seen.reached <=> row.socket # None
                   /\ removal'.seen.bound <=> row.bound
  <1>1. CASE row = None
    BY <1>1, NothingIs DEF LooksOn
  <1>2. CASE row # None
    <2>1. removal' = [left |-> left, seen |-> Looked(left)]
      BY <1>2 DEF LooksOn
    <2> DEFINE needs(x) == x \in {left[i] : i \in DOMAIN left}
    <2>2. /\ Looked(left).reached = (needs("tell") /\ row.socket # None)
          /\ Looked(left).bound = (needs("clear") /\ row.bound)
          /\ Looked(left).status = row.status
          /\ Looked(left) = [reached |-> Looked(left).reached, bound |-> Looked(left).bound,
                             status |-> Looked(left).status, seat |-> Looked(left).seat]
          /\ Looked(left).seat = (needs("unseat") /\ seat)
      BY DEF Looked
    <2>3. Looked(left) \in Seen
      <3>1. row.status \in Statuses
        BY <1>2, RowOf DEF RangeInv
      <3> QED BY <2>2, <3>1 DEF Seen, Statuses
    <2>4. left \in {<<"tell", "clear", "unseat">>, <<"tell", "clear">>} => needs("tell") /\ needs("clear")
      <3>1. CASE left = <<"tell", "clear", "unseat">>
        <4>1. 1 \in DOMAIN left /\ 2 \in DOMAIN left /\ left[1] = "tell" /\ left[2] = "clear"
          BY <3>1
        <4> QED BY <4>1
      <3>2. CASE left = <<"tell", "clear">>
        <4>1. 1 \in DOMAIN left /\ 2 \in DOMAIN left /\ left[1] = "tell" /\ left[2] = "clear"
          BY <3>2
        <4> QED BY <4>1
      <3> QED BY <3>1, <3>2
    <2> HIDE DEF needs
    <2>5. row.bound \in BOOLEAN
      BY <1>2, RowOf DEF RangeInv
    <2>6. left \in {<<"tell", "clear", "unseat">>, <<"tell", "clear">>} =>
            (Looked(left).reached <=> row.socket # None) /\ (Looked(left).bound <=> row.bound)
      BY <2>2, <2>4, <2>5
    <2>7. removal'.left = left /\ removal'.seen = Looked(left)
      BY <2>1
    <2> QED BY <1>2, <2>1, <2>2, <2>3, <2>6, <2>7
  <1> QED BY <1>1, <1>2

LEMMA GoesTo ==
  ASSUME RangeInv, NEW left \in Lefts, GoesOn(left)
  PROVE  /\ removal' \in [left : Lefts, seen : Seen] /\ (removal'.left = <<>> => removal' = NoRemoval)
         /\ removal'.left = left /\ (left # <<>> => removal'.seen = removal.seen)
  <1>1. removal = [left |-> removal.left, seen |-> removal.seen] /\ removal.seen \in Seen
    BY DEF RangeInv
  <1> QED BY <1>1, NothingIs DEF GoesOn

LEMMA TellsTo ==
  ASSUME RangeInv, NEW wanted, Tells(wanted)
  PROVE  /\ machine' \in Machines /\ machine'.key = machine.key
         /\ past' \in Pasts /\ SameButCrossed(past, past') /\ (past'.crossed => past.crossed)
         /\ \/ machine'.token = None
            \/ machine'.token = machine.token /\ (past'.crossed <=> past.crossed)
         /\ wanted /\ row # None /\ row.socket \in live => machine'.token = None
  <1>1. machine \in Machines /\ past \in Pasts
    BY DEF RangeInv
  <1>2. CASE wanted /\ row # None /\ row.socket # None
    <2>1. machine' = Told(row.socket) /\ past' = ToldPast(past, row.socket)
      BY <1>2 DEF Tells
    <2>2. /\ machine' \in Machines /\ machine'.key = machine.key
          /\ machine'.token = IF row.socket \in live THEN None ELSE machine.token
      BY <1>1, <2>1, ToldTo
    <2>3. /\ past' \in Pasts /\ (past'.crossed <=> row.socket \notin live /\ past.crossed)
          /\ SameButCrossed(past, past')
      BY <1>1, <2>1, ToldPastTo
    <2> QED BY <2>2, <2>3
  <1>3. CASE ~ (wanted /\ row # None /\ row.socket # None)
    <2>1. machine' = machine /\ past' = past
      BY <1>3 DEF Tells
    <2>2. None \notin live
      BY NoneAssumption DEF RangeInv
    <2> QED BY <1>1, <1>3, <2>1, <2>2 DEF SameButCrossed
  <1> QED BY <1>2, <1>3

LEMMA ClearsTo ==
  ASSUME RangeInv, Writes(Unbinds(removal.seen))
  PROVE  /\ row = None => row' = None
         /\ row # None =>
              /\ row' \in Rows /\ SameButBinding(row, row')
              /\ row'.bound <=> row.bound /\ ~ removal.seen.bound
  <1>1. row = None => row' = None
    BY DEF Writes
  <1>2. ASSUME row # None
        PROVE  /\ row' \in Rows /\ SameButBinding(row, row')
               /\ row'.bound <=> row.bound /\ ~ removal.seen.bound
    <2> DEFINE b == IF removal.seen.bound THEN FALSE ELSE row.bound
               u == IF removal.seen.status # "UNBOUND" THEN "UNBOUND" ELSE row.status
    <2>1. row \in Rows
      BY <1>2 DEF RangeInv
    <2>2. row' = [row EXCEPT !.bound = b, !.status = u]
      BY <1>2 DEF Writes, Unbinds
    <2>3. /\ row.socket \in Sockets \union {None} /\ row.online \in BOOLEAN /\ row.key \in Keys
          /\ row.bound \in BOOLEAN /\ row.status \in Statuses
          /\ row.sequence \in 0..MaxSequence /\ row.verdict \in Reports \union {None}
      BY <2>1, RowOf
    <2>4. b \in BOOLEAN /\ u \in Statuses /\ (b <=> row.bound /\ ~ removal.seen.bound)
      BY <2>3 DEF RangeInv, Seen, Statuses
    <2> HIDE DEF b, u
    <2>5. row' = RowWith(row.socket, row.online, row.key, b, u, row.sequence, row.verdict)
      BY <2>1, <2>2, BindingSet
    <2>6. row' \in Rows /\ SameButBinding(row, row') /\ row'.bound = b
      BY <2>3, <2>4, <2>5 DEF SameButBinding, RowWith, Rows, Statuses
    <2> QED BY <2>4, <2>6
  <1> QED BY <1>1, <1>2

LEMMA DestroysTo ==
  ASSUME RangeInv, past' = [past EXCEPT !.heard = 0]
  PROVE  past' \in Pasts /\ SameButHeard(past, past') /\ past'.heard = 0
  <1>1. past \in Pasts
    BY DEF RangeInv
  <1>2. past' = PastWith(past.blurred, past.alone, past.mixed, past.crossed, 0, past.last, past.orphans,
                         past.removals)
    BY <1>1, HeardSet
  <1> QED BY <1>1, <1>2, BoundsAssumption, PastOf DEF SameButHeard, PastWith, Pasts

\* What no step of a removal disturbs.
LEMMA RemovalFrame ==
  ASSUME RangeInv, RemovalStep
  PROVE  /\ row' = None \/ (row # None /\ row' \in Rows /\ SameButBinding(row, row'))
         /\ seat' \in BOOLEAN
         /\ removal' \in [left : Lefts, seen : Seen] /\ (removal'.left = <<>> => removal' = NoRemoval)
         /\ machine' \in Machines /\ machine'.key = machine.key
         /\ machine'.token = None \/ (machine'.token = machine.token /\ (past'.crossed <=> past.crossed))
         /\ past'.crossed => past.crossed
         /\ past' \in Pasts /\ past'.blurred = past.blurred /\ past'.alone = past.alone
         /\ past'.mixed = past.mixed /\ past'.last = past.last /\ past'.orphans = past.orphans
         /\ row' = None \/ past'.heard = past.heard
  <1> DEFINE Kept == \/ row' = None
                     \/ (row # None /\ row' \in Rows /\ SameButBinding(row, row'))
             Goes == removal' \in [left : Lefts, seen : Seen] /\ (removal'.left = <<>> => removal' = NoRemoval)
             Tell == /\ machine' \in Machines /\ machine'.key = machine.key
                     /\ machine'.token = None \/ (machine'.token = machine.token /\ (past'.crossed <=> past.crossed))
                     /\ past'.crossed => past.crossed
             Past == /\ past' \in Pasts /\ past'.blurred = past.blurred /\ past'.alone = past.alone
                     /\ past'.mixed = past.mixed /\ past'.last = past.last /\ past'.orphans = past.orphans
                     /\ row' = None \/ past'.heard = past.heard
  <1>1. UNCHANGED row => Kept
    BY DEF RangeInv, SameButBinding
  <1>2. UNCHANGED <<machine, past>> => Tell /\ Past
    BY DEF RangeInv
  <1>3. ASSUME NEW left \in Lefts \ {<<>>}, LooksOn(left)
        PROVE  Kept /\ seat' \in BOOLEAN /\ Goes /\ Tell /\ Past
    <2>1. UNCHANGED <<row, seat, machine, past>>
      BY <1>3 DEF LooksOn
    <2>2. Goes
      BY <1>3, LooksTo
    <2>3. seat' \in BOOLEAN
      BY <2>1 DEF RangeInv
    <2> HIDE DEF Kept, Goes, Tell, Past
    <2> QED BY <1>1, <1>2, <2>1, <2>2, <2>3
  <1>4. ASSUME NEW left \in Lefts, GoesOn(left)
        PROVE  Goes
    BY <1>4, GoesTo
  <1>5. ASSUME NEW wanted, Tells(wanted)
        PROVE  Tell /\ Past
    BY <1>5, TellsTo DEF SameButCrossed
  <1>6. ASSUME Writes(Unbinds(removal.seen))
        PROVE  Kept
    BY <1>6, ClearsTo
  <1>7. ASSUME row' = None, past' = [past EXCEPT !.heard = 0], UNCHANGED <<seat, machine>>
        PROVE  Kept /\ Tell /\ Past
    <2>1. past' \in Pasts /\ SameButHeard(past, past')
      BY <1>7, DestroysTo
    <2> QED BY <1>7, <2>1 DEF SameButHeard, RangeInv
  <1>8. seat \in BOOLEAN /\ FALSE \in BOOLEAN /\ (seat /\ ~ removal.seen.seat) \in BOOLEAN
    BY DEF RangeInv
  <1>9. Steps
    BY StepsOf
  <1>10. /\ <<"tell", "clear", "unseat">> \in Lefts \ {<<>>} /\ <<"tell", "clear">> \in Lefts \ {<<>>}
         /\ <<"tellOnline", "seat", "destroy">> \in Lefts \ {<<>>} /\ <<"look", "tell", "clear">> \in Lefts
         /\ <<"look", "tellOnline", "seat", "destroy">> \in Lefts /\ <<"clear", "unseat">> \in Lefts
         /\ <<"unseat">> \in Lefts /\ <<"clear">> \in Lefts /\ <<"seat", "destroy">> \in Lefts
         /\ <<"destroy">> \in Lefts /\ <<>> \in Lefts
    BY DEF Lefts
  <1>11. Kept /\ seat' \in BOOLEAN /\ Goes /\ Tell /\ Past
    <2> HIDE DEF Kept, Goes, Tell, Past
    <2>1. CASE \E left \in Lefts \ {<<>>} : LooksOn(left)
      BY <1>3, <2>1
    <2>2. CASE \E left \in Lefts : GoesOn(left) /\ (\E wanted \in BOOLEAN : Tells(wanted)) /\ UNCHANGED <<row, seat>>
      BY <1>1, <1>4, <1>5, <1>8, <2>2
    <2>3. CASE \E left \in Lefts : GoesOn(left) /\ Writes(Unbinds(removal.seen)) /\ UNCHANGED <<seat, machine, past>>
      BY <1>2, <1>4, <1>6, <1>8, <2>3
    <2>4. CASE \E left \in Lefts : /\ GoesOn(left) /\ UNCHANGED <<row, machine, past>>
                                   /\ seat' = FALSE \/ seat' = (seat /\ ~ removal.seen.seat)
      BY <1>1, <1>2, <1>4, <1>8, <2>4
    <2>5. CASE \E left \in Lefts : /\ GoesOn(left) /\ row' = None /\ past' = [past EXCEPT !.heard = 0]
                                   /\ UNCHANGED <<seat, machine>>
      BY <1>4, <1>7, <1>8, <2>5
    <2>6. removal.seen.reached \in BOOLEAN /\ (removal.seen.status = "ONLINE") \in BOOLEAN /\ TRUE \in BOOLEAN
      BY DEF RangeInv, Seen
    <2> QED BY <1>9, <1>10, <2>1, <2>2, <2>3, <2>4, <2>5, <2>6 DEF Steps
  <1> QED BY <1>11
--------------------------------------------------------------------------------
(* Sockets and handlers *)

\* f changes at s only.
OnlyAt(s, f, g) == \A t \in Sockets : t # s => g[t] = f[t]

LEMMA ConnectsTo ==
  ASSUME RangeInv, NEW s \in Sockets, Connects(s)
  PROVE  off' \in [Sockets -> Offs] /\ off'[s].at = "open" /\ OnlyAt(s, off, off')
  BY DEF RangeInv, Connects, OnlyAt, Offs

LEMMA DropsTo ==
  ASSUME RangeInv, NEW s \in Sockets, Drops(s)
  PROVE  off' \in [Sockets -> Offs] /\ off'[s].at = "due" /\ OnlyAt(s, off, off')
  BY DEF RangeInv, Drops, OnlyAt, Offs

LEMMA ReopensTo ==
  ASSUME RangeInv, Reopens
  PROVE  /\ machine' = [key |-> machine.key + 1, token |-> None] /\ machine' \in Machines
         /\ reKey.at = "idle" /\ live' = {} /\ off' \in [Sockets -> Offs]
         /\ \A t \in Sockets : off'[t].at = IF t \in live THEN "due" ELSE off[t].at
         /\ past' \in Pasts /\ SameButCrossed(past, past') /\ past'.crossed = FALSE
  <1>1. machine' = [key |-> machine.key + 1, token |-> None] /\ machine' \in Machines /\ reKey.at = "idle" /\ live' = {}
    BY BoundsAssumption DEF Reopens, RangeInv, Machines, Keys
  <1>2. /\ off' \in [Sockets -> Offs]
        /\ \A t \in Sockets : off'[t].at = IF t \in live THEN "due" ELSE off[t].at
    BY DEF Reopens, RangeInv, Offs
  <1>3. past' = PastWith(past.blurred, past.alone, past.mixed, FALSE, past.heard, past.last, past.orphans,
                         past.removals)
    BY CrossedSet DEF Reopens, RangeInv
  <1>4. past \in Pasts
    BY DEF RangeInv
  <1>5. past' \in Pasts /\ SameButCrossed(past, past') /\ past'.crossed = FALSE
    BY <1>3, <1>4, PastOf DEF SameButCrossed, PastWith, Pasts
  <1> QED BY <1>1, <1>2, <1>5

LEMMA RestartTo ==
  ASSUME RangeInv, Restart
  PROVE  /\ reg' \in [Sockets -> Regs] /\ (\A t \in Sockets : reg'[t].at = "idle")
         /\ off' \in [Sockets -> Offs]
         /\ \A t \in Sockets : off'[t].at = IF off[t].at = "never" THEN "never" ELSE "over"
         /\ past' \in Pasts /\ past'.alone = {} /\ past'.blurred = past.blurred /\ past'.mixed = past.mixed
         /\ past'.crossed = past.crossed /\ past'.heard = past.heard /\ past'.last = past.last
         /\ past'.orphans = past.orphans \union {s \in Sockets : Finds(s) /\ off[s].at \in {"open", "due", "save"}}
  <1>1. reg' \in [Sockets -> Regs] /\ (\A t \in Sockets : reg'[t].at = "idle")
    BY DEF Restart, Regs, Idle
  <1>2. /\ off' \in [Sockets -> Offs]
        /\ \A t \in Sockets : off'[t].at = IF off[t].at = "never" THEN "never" ELSE "over"
    BY DEF Restart, RangeInv, Offs
  <1> DEFINE lost == past.orphans \union {s \in Sockets : Finds(s) /\ off[s].at \in {"open", "due", "save"}}
  <1>3. past \in Pasts
    BY DEF RangeInv
  <1>4. past' = PastWith(past.blurred, {}, past.mixed, past.crossed, past.heard, past.last, lost, past.removals)
    BY <1>3, RestartedSet DEF Restart
  <1>5. lost \in SUBSET Sockets
    BY <1>3, PastOf
  <1>6. lost = past.orphans \union {s \in Sockets : Finds(s) /\ off[s].at \in {"open", "due", "save"}}
    OBVIOUS
  <1> HIDE DEF lost
  <1>7. /\ past' \in Pasts /\ past'.alone = {} /\ past'.blurred = past.blurred /\ past'.mixed = past.mixed
        /\ past'.crossed = past.crossed /\ past'.heard = past.heard /\ past'.last = past.last
        /\ past'.orphans = lost
    BY <1>3, <1>4, <1>5, PastOf DEF PastWith, Pasts
  <1> QED BY <1>1, <1>2, <1>6, <1>7

LEMMA DisconnectReadsTo ==
  ASSUME RangeInv, NEW s \in Sockets, DisconnectReads(s)
  PROVE  /\ off' \in [Sockets -> Offs] /\ OnlyAt(s, off, off')
         /\ off'[s].at = IF Finds(s) THEN "save" ELSE "over"
  <1>1. Finds(s) => row.online \in BOOLEAN
    BY RowOf DEF Finds, RangeInv
  <1> QED BY <1>1 DEF DisconnectReads, RangeInv, Offs, OnlyAt

LEMMA DisconnectSavesTo ==
  ASSUME RangeInv, NEW s \in Sockets, DisconnectSaves(s)
  PROVE  off' \in [Sockets -> Offs] /\ OnlyAt(s, off, off') /\ off'[s].at = "over"
  BY DEF DisconnectSaves, RangeInv, Offs, OnlyAt

LEMMA RegisterReadsTo ==
  ASSUME RangeInv, NEW s \in Sockets, RegisterReads(s)
  PROVE  /\ row = None => /\ machine' \in Machines /\ machine'.key = machine.key /\ machine'.token = None
                          /\ past' \in Pasts /\ SameButCrossed(past, past') /\ ~ past'.crossed /\ reg' = reg
         /\ row # None => /\ reg' \in [Sockets -> Regs] /\ OnlyAt(s, reg, reg')
                          /\ reg'[s].at = "check" /\ reg'[s].online = row.online
                          /\ reg'[s].signed <=> machine.token # None
                          /\ reg'[s].fits <=> row.key = machine.token /\ row.bound
                          /\ past' \in Pasts /\ machine' = machine
                          /\ past'.blurred <=> past.blurred \/ ~ Alone
                          /\ past'.alone = IF Alone THEN {s} ELSE {}
                          /\ past'.crossed <=> past.crossed \/ removal # NoRemoval
                          /\ past'.mixed = past.mixed /\ past'.heard = past.heard
                          /\ past'.last = past.last /\ past'.orphans = past.orphans
  <1>1. ASSUME row = None
        PROVE  /\ machine' \in Machines /\ machine'.key = machine.key /\ machine'.token = None
               /\ past' \in Pasts /\ SameButCrossed(past, past') /\ ~ past'.crossed /\ reg' = reg
    <2>1. machine' = Told(s) /\ past' = ToldPast(past, s) /\ reg' = reg /\ s \in live
      BY <1>1 DEF RegisterReads
    <2> QED BY <2>1, ToldTo, ToldPastTo DEF RangeInv
  <1>2. ASSUME row # None
        PROVE  /\ reg' \in [Sockets -> Regs] /\ OnlyAt(s, reg, reg')
               /\ reg'[s].at = "check" /\ reg'[s].online = row.online
               /\ reg'[s].signed <=> machine.token # None
               /\ reg'[s].fits <=> row.key = machine.token /\ row.bound
    <2>1. row.online \in BOOLEAN
      BY <1>2, RowOf DEF RangeInv
    <2> DEFINE signs == machine.token # None
               fit == row.key = machine.token /\ row.bound
    <2>2. reg' = [reg EXCEPT ![s] = [at |-> "check", online |-> row.online, signed |-> signs, fits |-> fit]]
      BY <1>2 DEF RegisterReads
    <2>3. signs \in BOOLEAN /\ fit \in BOOLEAN
      OBVIOUS
    <2>4. (reg'[s].signed = signs) => (reg'[s].signed <=> machine.token # None)
      OBVIOUS
    <2>5. (reg'[s].fits = fit) => (reg'[s].fits <=> row.key = machine.token /\ row.bound)
      OBVIOUS
    <2> HIDE DEF signs, fit
    <2>6. /\ reg' \in [Sockets -> Regs] /\ OnlyAt(s, reg, reg')
          /\ reg'[s].at = "check" /\ reg'[s].online = row.online /\ reg'[s].signed = signs /\ reg'[s].fits = fit
      BY <2>1, <2>2, <2>3 DEF RangeInv, Regs, OnlyAt
    <2> QED BY <2>4, <2>5, <2>6
  <1>3. ASSUME row # None
        PROVE  /\ past' \in Pasts /\ machine' = machine
               /\ past'.blurred <=> past.blurred \/ ~ Alone
               /\ past'.alone = IF Alone THEN {s} ELSE {}
               /\ past'.crossed <=> past.crossed \/ removal # NoRemoval
               /\ past'.mixed = past.mixed /\ past'.heard = past.heard
               /\ past'.last = past.last /\ past'.orphans = past.orphans
    <2>1. past' = Crosses(Reads({s})) /\ machine' = machine
      BY <1>3 DEF RegisterReads
    <2>2. {s} \in SUBSET Sockets /\ past \in Pasts
      BY DEF RangeInv
    <2>3. /\ Reads({s}) \in Pasts /\ (Reads({s}).blurred <=> past.blurred \/ ~ Alone)
          /\ Reads({s}).alone = IF Alone THEN {s} ELSE {}
      BY <2>2, ReadsTo
    <2>4. SameButAlone(past, Reads({s}))
      BY <2>2, ReadsTo
    <2>5. /\ past' \in Pasts /\ (past'.crossed <=> Reads({s}).crossed \/ removal # NoRemoval)
          /\ SameButCrossed(Reads({s}), past')
      BY <2>1, <2>3, CrossesTo
    <2> QED BY <2>1, <2>3, <2>4, <2>5 DEF SameButAlone, SameButCrossed
  <1> QED BY <1>1, <1>2, <1>3

LEMMA RegisterChecksTo ==
  ASSUME RangeInv, NEW s \in Sockets, RegisterChecks(s)
  PROVE  /\ reg' \in [Sockets -> Regs] /\ OnlyAt(s, reg, reg')
         /\ machine' \in Machines /\ machine'.key = machine.key
         /\ past' \in Pasts /\ SameButCrossed(past, past')
         /\ \/ /\ Believes(s) /\ reg'[s].at = "save" /\ reg'[s].online = reg[s].online /\ ~ reg'[s].signed
               /\ machine' = machine /\ past' = past
            \/ /\ reg'[s].at = "idle" /\ (past'.crossed => past.crossed)
               /\ \/ machine'.token = None
                  \/ machine'.token = machine.token /\ (past'.crossed <=> past.crossed)
  <1>1. machine \in Machines /\ past \in Pasts /\ reg[s] \in Regs
    BY DEF RangeInv
  <1>2. CASE Believes(s)
    <2>1. reg' = [reg EXCEPT ![s] = [Idle EXCEPT !.at = "save", !.online = reg[s].online]]
      BY <1>2 DEF RegisterChecks
    <2>2. machine' = machine /\ past' = past
      BY <1>2 DEF RegisterChecks
    <2>3. [Idle EXCEPT !.at = "save", !.online = reg[s].online] =
            [at |-> "save", online |-> reg[s].online, fits |-> FALSE, signed |-> FALSE]
      <3> DEFINE no == FALSE
                 x == reg[s].online
      <3>1. Idle = [at |-> "idle", online |-> no, fits |-> no, signed |-> no]
        BY DEF Idle
      <3>2. [Idle EXCEPT !.at = "save", !.online = x] = [[Idle EXCEPT !.at = "save"] EXCEPT !.online = x]
        OBVIOUS
      <3>3. no = FALSE /\ x = reg[s].online
        OBVIOUS
      <3> HIDE DEF no, x
      <3>4. [Idle EXCEPT !.at = "save"] = [at |-> "save", online |-> no, fits |-> no, signed |-> no]
        BY <3>1
      <3>5. [[at |-> "save", online |-> no, fits |-> no, signed |-> no] EXCEPT !.online = x] =
              [at |-> "save", online |-> x, fits |-> no, signed |-> no]
        OBVIOUS
      <3> QED BY <3>2, <3>3, <3>4, <3>5
    <2>4. /\ reg' \in [Sockets -> Regs] /\ OnlyAt(s, reg, reg')
          /\ reg'[s].at = "save" /\ reg'[s].online = reg[s].online /\ ~ reg'[s].signed
      BY <1>1, <2>1, <2>3 DEF RangeInv, Regs, OnlyAt
    <2> QED BY <1>1, <1>2, <2>2, <2>4 DEF SameButCrossed
  <1>3. CASE ~ Believes(s)
    <2>1. reg' = [reg EXCEPT ![s] = Idle] /\ machine' = Told(s) /\ past' = ToldPast(past, s)
      BY <1>3 DEF RegisterChecks
    <2>2. reg' \in [Sockets -> Regs] /\ OnlyAt(s, reg, reg') /\ reg'[s].at = "idle"
      BY <2>1 DEF RangeInv, Regs, OnlyAt, Idle
    <2>3. /\ machine' \in Machines /\ machine'.key = machine.key
          /\ machine'.token = IF s \in live THEN None ELSE machine.token
      BY <1>1, <2>1, ToldTo
    <2>4. /\ past' \in Pasts /\ SameButCrossed(past, past')
          /\ past'.crossed <=> s \notin live /\ past.crossed
      BY <1>1, <2>1, ToldPastTo
    <2> QED BY <2>2, <2>3, <2>4
  <1> QED BY <1>2, <1>3

LEMMA RegisterEnds ==
  ASSUME RangeInv, NEW s \in Sockets, RegisterSaves(s)
  PROVE  reg' \in [Sockets -> Regs] /\ OnlyAt(s, reg, reg') /\ reg'[s].at = "idle"
  BY DEF RegisterSaves, RangeInv, Regs, OnlyAt, Idle

LEMMA RegisterFailsTo ==
  ASSUME RangeInv, NEW s \in Sockets, RegisterFails(s)
  PROVE  /\ reg' \in [Sockets -> Regs] /\ OnlyAt(s, reg, reg') /\ reg'[s].at = "idle"
         /\ machine' \in Machines /\ machine'.key = machine.key
         /\ past' \in Pasts /\ SameButCrossed(past, past') /\ (past'.crossed => past.crossed)
         /\ \/ machine'.token = None
            \/ machine'.token = machine.token /\ (past'.crossed <=> past.crossed)
  <1>1. machine \in Machines /\ past \in Pasts
    BY DEF RangeInv
  <1>2. reg' \in [Sockets -> Regs] /\ OnlyAt(s, reg, reg') /\ reg'[s].at = "idle"
    BY DEF RegisterFails, RangeInv, Regs, OnlyAt, Idle
  <1>3. CASE reg[s].signed
    <2>1. machine' = Told(s) /\ past' = ToldPast(past, s)
      BY <1>3 DEF RegisterFails
    <2>2. /\ machine' \in Machines /\ machine'.key = machine.key
          /\ machine'.token = IF s \in live THEN None ELSE machine.token
      BY <1>1, <2>1, ToldTo
    <2>3. /\ past' \in Pasts /\ SameButCrossed(past, past')
          /\ past'.crossed <=> s \notin live /\ past.crossed
      BY <1>1, <2>1, ToldPastTo
    <2> QED BY <1>2, <2>2, <2>3
  <1>4. CASE ~ reg[s].signed
    BY <1>1, <1>2, <1>4 DEF RegisterFails, SameButCrossed
  <1> QED BY <1>3, <1>4

LEMMA DisconnectFailsTo ==
  ASSUME RangeInv, NEW s \in Sockets, DisconnectFails(s)
  PROVE  /\ off' \in [Sockets -> Offs] /\ OnlyAt(s, off, off') /\ off'[s].at = "over"
         /\ past' \in Pasts /\ past'.alone = past.alone /\ past'.blurred = past.blurred
         /\ past'.mixed = past.mixed /\ past'.crossed = past.crossed /\ past'.heard = past.heard
         /\ past'.last = past.last /\ past'.orphans = past.orphans \union {s}
  <1>1. off' \in [Sockets -> Offs] /\ OnlyAt(s, off, off') /\ off'[s].at = "over"
    BY DEF DisconnectFails, RangeInv, Offs, OnlyAt
  <1> DEFINE lost == past.orphans \union {s}
  <1>2. past \in Pasts
    BY DEF RangeInv
  <1>3. past' = PastWith(past.blurred, past.alone, past.mixed, past.crossed, past.heard, past.last, lost,
                         past.removals)
    BY <1>2, OrphansSet DEF DisconnectFails
  <1>4. lost \in SUBSET Sockets /\ lost = past.orphans \union {s}
    BY <1>2, PastOf
  <1> HIDE DEF lost
  <1> QED BY <1>1, <1>2, <1>3, <1>4, PastOf DEF PastWith, Pasts

LEMMA SignInFailsTo ==
  ASSUME RangeInv, SignInFails
  PROVE  /\ row # None /\ machine.token = None /\ row' \in Rows /\ SameButBinding(row, row')
         /\ seat' \in BOOLEAN
  <1>1. row # None /\ machine.token = None /\ row \in Rows /\ seat' \in BOOLEAN
    BY DEF SignInFails, Registered, RangeInv
  <1>2. row' = RowWith(row.socket, row.online, row.key, TRUE, "ONLINE", row.sequence, row.verdict)
    BY <1>1, BindingSet DEF SignInFails
  <1>3. /\ row.socket \in Sockets \union {None} /\ row.online \in BOOLEAN /\ row.key \in Keys
        /\ row.sequence \in 0..MaxSequence /\ row.verdict \in Reports \union {None}
        /\ "ONLINE" \in Statuses /\ TRUE \in BOOLEAN
    BY <1>1, RowOf DEF Statuses
  <1>4. row' \in Rows /\ SameButBinding(row, row')
    BY <1>2, <1>3 DEF SameButBinding, RowWith, Rows, Statuses
  <1> QED BY <1>1, <1>4

LEMMA RemovalFailsTo ==
  ASSUME RangeInv, RemovalFails
  PROVE  /\ removal' = NoRemoval /\ past' \in Pasts /\ SameButCrossed(past, past')
         /\ past'.crossed <=> past.crossed \/ removal.left \in Untelling
  <1> DEFINE crosses == past.crossed \/ removal.left \in Untelling
  <1>1. past \in Pasts /\ removal' = NoRemoval
    BY DEF RangeInv, RemovalFails
  <1>2. past' = PastWith(past.blurred, past.alone, past.mixed, crosses, past.heard, past.last, past.orphans,
                         past.removals)
    BY <1>1, CrossedSet DEF RemovalFails
  <1>3. crosses \in BOOLEAN
    OBVIOUS
  <1>4. (past'.crossed = crosses) => (past'.crossed <=> past.crossed \/ removal.left \in Untelling)
    OBVIOUS
  <1> HIDE DEF crosses
  <1>5. past' \in Pasts /\ SameButCrossed(past, past') /\ past'.crossed = crosses
    BY <1>1, <1>2, <1>3, PastOf, PastIs DEF SameButCrossed
  <1> QED BY <1>1, <1>4, <1>5

LEMMA RemovesTo ==
  ASSUME RangeInv, NEW steps \in Removals, Removes(steps)
  PROVE  /\ removal = NoRemoval /\ removal' \in [left : Lefts, seen : Seen] /\ removal'.left = steps
         /\ steps # <<>>
         /\ past' \in Pasts /\ (past'.crossed <=> past.crossed \/ Registering # {})
         /\ past'.blurred = past.blurred /\ past'.alone = past.alone /\ past'.mixed = past.mixed
         /\ past'.heard = past.heard /\ past'.last = past.last /\ past'.orphans = past.orphans
  <1>1. /\ removal = NoRemoval /\ steps \in Lefts /\ steps # <<>>
        /\ removal' = [left |-> steps, seen |-> NoRemoval.seen] /\ NoRemoval.seen \in Seen
    <2>1. steps \in Lefts /\ steps # <<>>
      BY DEF Removals, Lefts
    <2>2. NoRemoval = [left |-> NoRemoval.left, seen |-> NoRemoval.seen] /\ NoRemoval.seen \in Seen
      BY NothingIs DEF NoRemoval
    <2> QED BY <2>1, <2>2 DEF Removes
  <1> DEFINE crosses == past.crossed \/ Registering # {}
  <1>2. past' = PastWith(past.blurred, past.alone, past.mixed, crosses, past.heard, past.last, past.orphans,
                         past.removals + 1)
    BY RequestedSet DEF Removes, RangeInv
  <1>3. crosses \in BOOLEAN /\ past.removals + 1 \in 0..MaxRemovals
    BY PastOf, BoundsAssumption DEF RangeInv, Removes
  <1>4. (past'.crossed = crosses) => (past'.crossed <=> past.crossed \/ Registering # {})
    OBVIOUS
  <1> HIDE DEF crosses
  <1>5. past \in Pasts
    BY DEF RangeInv
  <1>6. /\ past' \in Pasts /\ past'.crossed = crosses
        /\ past'.blurred = past.blurred /\ past'.alone = past.alone /\ past'.mixed = past.mixed
        /\ past'.heard = past.heard /\ past'.last = past.last /\ past'.orphans = past.orphans
    BY <1>2, <1>3, <1>5, PastOf DEF PastWith, Pasts
  <1> QED BY <1>1, <1>4, <1>6

LEMMA KeyReadsTo ==
  ASSUME RangeInv, KeyReads
  PROVE  /\ reKey'.at = "save" /\ reKey' \in [at : {"idle", "save"}, seen : Copies \union {None}]
         /\ row = None => reKey'.seen = None
         /\ row # None => reKey'.seen = Copy(row) /\ reKey'.seen # None
  <1>1. row # None => Copy(row) \in Copies /\ Copy(row) # None
    BY CopyIs DEF RangeInv
  <1> QED BY <1>1 DEF KeyReads

\* The actions with a socket, a report or a list of steps as their parameter, and those without.
LEMMA Actions ==
  ASSUME [Next]_vars
  PROVE  \/ \E s \in Sockets : \/ Connects(s) \/ Drops(s) \/ RegisterReads(s) \/ RegisterChecks(s)
                               \/ RegisterSaves(s) \/ DisconnectReads(s) \/ DisconnectSaves(s)
         \/ Reopens \/ KeyReads \/ KeySaves \/ SignsIn \/ RemovalStep \/ Restart
         \/ \E m \in Reports : ReportLands(m)
         \/ \E steps \in Removals : Removes(steps)
         \/ Fails
         \/ UNCHANGED session
  BY DEF Next, Works, vars

--------------------------------------------------------------------------------
(* Every variable keeps its type *)

LEMMA RangeStarts == Init => RangeInv
  <1> SUFFICES ASSUME Init PROVE RangeInv
    OBVIOUS
  <1>1. past = PastWith(FALSE, {}, FALSE, FALSE, 0, None, {}, 0)
    BY DEF Init, PastWith
  <1>2. past \in Pasts
    BY <1>1, BoundsAssumption DEF PastWith, Pasts
  <1>3. removal \in [left : Lefts, seen : Seen] /\ (removal.left = <<>> => removal = NoRemoval)
    BY NothingIs DEF Init
  <1>4. machine \in Machines
    BY BoundsAssumption DEF Init, Machines, Keys
  <1>5. reg \in [Sockets -> Regs] /\ off \in [Sockets -> Offs]
    BY DEF Init, Regs, Offs, Idle
  <1> QED BY <1>2, <1>3, <1>4, <1>5 DEF Init, RangeInv

LEMMA RangeOfSockets ==
  ASSUME RangeInv, NEW s \in Sockets,
         \/ Connects(s) \/ Drops(s) \/ RegisterReads(s) \/ RegisterChecks(s)
         \/ RegisterSaves(s) \/ DisconnectReads(s) \/ DisconnectSaves(s)
  PROVE  RangeInv'
  <1>1. CASE Connects(s)
    BY <1>1, ConnectsTo DEF Connects, RangeInv
  <1>2. CASE Drops(s)
    BY <1>2, DropsTo DEF Drops, RangeInv
  <1>3. CASE RegisterReads(s)
    <2>1. /\ reg' \in [Sockets -> Regs] /\ machine' \in Machines /\ past' \in Pasts
      BY <1>3, RegisterReadsTo DEF RangeInv
    <2> QED BY <1>3, <2>1 DEF RegisterReads, RangeInv
  <1>4. CASE RegisterChecks(s)
    BY <1>4, RegisterChecksTo DEF RegisterChecks, RangeInv
  <1>5. CASE RegisterSaves(s)
    <2>1. row' \in Rows \union {None} /\ past' \in Pasts
      BY <1>5, SavesTo DEF RangeInv
    <2> QED BY <1>5, <2>1, RegisterEnds DEF RegisterSaves, RangeInv
  <1>6. CASE DisconnectReads(s)
    <2>1. past' \in Pasts
      BY <1>6, ReadsTo DEF DisconnectReads, RangeInv
    <2> QED BY <1>6, <2>1, DisconnectReadsTo DEF DisconnectReads, RangeInv
  <1>7. CASE DisconnectSaves(s)
    <2>1. row' \in Rows \union {None}
      BY <1>7, LeavesTo DEF RangeInv, DisconnectSaves, Writes
    <2> QED BY <1>7, <2>1, DisconnectSavesTo DEF DisconnectSaves, RangeInv
  <1> QED BY <1>1, <1>2, <1>3, <1>4, <1>5, <1>6, <1>7

LEMMA RangeOfFails ==
  ASSUME RangeInv, Fails
  PROVE  RangeInv'
  <1>1. CASE KeyFails
    BY <1>1 DEF KeyFails, RangeInv
  <1>2. CASE SignInFails
    BY <1>2, SignInFailsTo DEF SignInFails, RangeInv
  <1>3. CASE RemovalFails
    BY <1>3, RemovalFailsTo, NothingIs DEF RemovalFails, RangeInv
  <1>4. ASSUME NEW s \in Sockets, RegisterFails(s) PROVE RangeInv'
    BY <1>4, RegisterFailsTo DEF RegisterFails, RangeInv
  <1>5. ASSUME NEW s \in Sockets, DisconnectFails(s) PROVE RangeInv'
    BY <1>5, DisconnectFailsTo DEF DisconnectFails, RangeInv
  <1> QED BY <1>1, <1>2, <1>3, <1>4, <1>5 DEF Fails

LEMMA RangeStays == RangeInv /\ [Next]_vars => RangeInv'
  <1> SUFFICES ASSUME RangeInv, [Next]_vars PROVE RangeInv'
    OBVIOUS
  <1>1. ASSUME NEW s \in Sockets,
               \/ Connects(s) \/ Drops(s) \/ RegisterReads(s) \/ RegisterChecks(s)
               \/ RegisterSaves(s) \/ DisconnectReads(s) \/ DisconnectSaves(s)
        PROVE  RangeInv'
    BY <1>1, RangeOfSockets
  <1>2. CASE Reopens
    BY <1>2, ReopensTo DEF Reopens, RangeInv
  <1>3. CASE KeyReads
    <2>1. past' \in Pasts
      BY <1>3, ReadsTo DEF KeyReads, RangeInv
    <2> QED BY <1>3, <2>1, KeyReadsTo DEF KeyReads, RangeInv
  <1>4. CASE KeySaves
    <2>1. Created(machine.key) \in Rows
      BY CreatedIs DEF RangeInv, Machines
    <2>2. row' \in Rows \union {None}
      BY <1>4, <2>1, KeySavesTo DEF RangeInv
    <2>3. past' \in Pasts /\ reKey' = [at |-> "idle", seen |-> None]
      BY <1>4, KeySavesTo
    <2> QED BY <1>4, <2>2, <2>3 DEF KeySaves, RangeInv
  <1>5. CASE SignsIn
    BY <1>5, SignsInTo DEF SignsIn, RangeInv
  <1>6. CASE RemovalStep
    <2>1. /\ row' \in Rows \union {None} /\ seat' \in BOOLEAN /\ machine' \in Machines /\ past' \in Pasts
          /\ removal' \in [left : Lefts, seen : Seen] /\ (removal'.left = <<>> => removal' = NoRemoval)
      BY <1>6, RemovalFrame
    <2> QED BY <1>6, <2>1 DEF RemovalStep, RangeInv
  <1>7. CASE Restart
    <2>1. live' \subseteq Sockets /\ reKey' \in [at : {"idle", "save"}, seen : Copies \union {None}]
      BY <1>7 DEF Restart
    <2>2. removal' \in [left : Lefts, seen : Seen] /\ (removal'.left = <<>> => removal' = NoRemoval)
      BY <1>7, NothingIs DEF Restart
    <2>3. reg' \in [Sockets -> Regs] /\ off' \in [Sockets -> Offs] /\ past' \in Pasts
      BY <1>7, RestartTo
    <2> QED BY <1>7, <2>1, <2>2, <2>3 DEF Restart, RangeInv
  <1>8. ASSUME NEW m \in Reports, ReportLands(m)
        PROVE  RangeInv'
    <2>1. row' \in Rows \union {None} /\ past' \in Pasts
      BY <1>8, ReportsTo DEF RangeInv
    <2> QED BY <1>8, <2>1 DEF ReportLands, RangeInv
  <1>9. ASSUME NEW steps \in Removals, Removes(steps)
        PROVE  RangeInv'
    <2>1. /\ removal' \in [left : Lefts, seen : Seen] /\ (removal'.left = <<>> => removal' = NoRemoval)
          /\ past' \in Pasts
      BY <1>9, RemovesTo
    <2> QED BY <1>9, <2>1 DEF Removes, RangeInv
  <1>10. CASE UNCHANGED session
    BY <1>10 DEF session, RangeInv
  <1> QED BY <1>1, <1>2, <1>3, <1>4, <1>5, <1>6, <1>7, <1>8, <1>9, <1>10, Actions, RangeOfFails

\* Rejected calls are counted.
CountInv == failures \in 0..MaxFailures

LEMMA CountStarts == Init => CountInv
  BY BoundsAssumption DEF Init, CountInv

LEMMA CountStays == CountInv /\ [Next]_vars => CountInv'
  BY BoundsAssumption DEF CountInv, Next, vars

\* The types the model states are among them.
LEMMA RangeGivesType == RangeInv /\ CountInv => TypeOK
  <1> SUFFICES ASSUME RangeInv, CountInv PROVE TypeOK
    OBVIOUS
  <1> DEFINE all == {"call", "look", "tell", "tellOnline", "seat", "unseat", "clear", "destroy"}
  <1>1. removal.left \in Lefts /\ removal.seen \in Seen
    BY DEF RangeInv
  <1>2. removal.left \in Seq(all)
    <2>1. <<>> \in Seq(all)
      OBVIOUS
    <2>2. <<"look", "tell", "clear", "unseat">> \in Seq(all)
      OBVIOUS
    <2>3. <<"tell", "clear", "unseat">> \in Seq(all)
      OBVIOUS
    <2>4. <<"clear", "unseat">> \in Seq(all)
      OBVIOUS
    <2>5. <<"unseat">> \in Seq(all)
      OBVIOUS
    <2>6. <<"seat", "look", "tell", "clear">> \in Seq(all)
      OBVIOUS
    <2>7. <<"look", "tell", "clear">> \in Seq(all)
      OBVIOUS
    <2>8. <<"tell", "clear">> \in Seq(all)
      OBVIOUS
    <2>9. <<"clear">> \in Seq(all)
      OBVIOUS
    <2>10. <<"call", "look", "tellOnline", "seat", "destroy">> \in Seq(all)
      OBVIOUS
    <2>11. <<"look", "tellOnline", "seat", "destroy">> \in Seq(all)
      OBVIOUS
    <2>12. <<"tellOnline", "seat", "destroy">> \in Seq(all)
      OBVIOUS
    <2>13. <<"seat", "destroy">> \in Seq(all)
      OBVIOUS
    <2>14. <<"destroy">> \in Seq(all)
      OBVIOUS
    <2> HIDE DEF all
    <2> QED BY <1>1, <2>1, <2>2, <2>3, <2>4, <2>5, <2>6, <2>7, <2>8, <2>9, <2>10, <2>11, <2>12, <2>13, <2>14 DEF Lefts
  <1>3. past.removals \in 0..MaxRemovals /\ past.heard \in 0..MaxSequence
    BY PastOf DEF RangeInv
  <1> QED BY <1>1, <1>2, <1>3 DEF RangeInv, CountInv, TypeOK, Regs, Offs, Machines

--------------------------------------------------------------------------------
(* Reports *)

\* registerKey's copy, the key the row holds and the key the token was signed with.
CopyInv ==
  /\ reKey.at = "idle" => reKey.seen = None
  /\ reKey.at = "save" /\ reKey.seen = None => row = None
  /\ reKey.at = "save" /\ row # None => row.key # machine.key
  /\ machine.token # None => machine.token = machine.key
  /\ machine.token # None /\ row # None => row.key = machine.key

\* Verdict and sequence belong together, in the row and in registerKey's copy of it.
PairInv ==
  /\ row # None => (row.verdict = None <=> row.sequence = 0)
  /\ row # None /\ row.verdict # None => row.verdict.sequence = row.sequence
  /\ reKey.seen # None => (reKey.seen.verdict = None <=> reKey.seen.sequence = 0)
  /\ reKey.seen # None /\ reKey.seen.verdict # None => reKey.seen.verdict.sequence = reKey.seen.sequence

ReportInv == RangeInv /\ CopyInv /\ PairInv /\ VerdictIsLatest

\* The row goes, or says of its key and its reports what it said.
KeepsReports ==
  \/ row' = None
  \/ /\ row # None /\ row'.key = row.key /\ row'.sequence = row.sequence /\ row'.verdict = row.verdict
     /\ past'.heard = past.heard

LEMMA ReportFrame ==
  ASSUME ReportInv, KeepsReports, past'.mixed = past.mixed, machine'.key = machine.key,
         machine'.token \in {None, machine.token}, UNCHANGED reKey
  PROVE  CopyInv' /\ PairInv' /\ VerdictIsLatest'
  <1>1. CopyInv'
    BY DEF ReportInv, CopyInv, KeepsReports
  <1>2. PairInv'
    BY DEF ReportInv, PairInv, KeepsReports
  <1>3. VerdictIsLatest'
    BY DEF ReportInv, VerdictIsLatest, KeepsReports
  <1> QED BY <1>1, <1>2, <1>3

LEMMA ReportStarts == Init => ReportInv
  <1> SUFFICES ASSUME Init PROVE ReportInv
    OBVIOUS
  <1>1. CopyInv /\ PairInv /\ VerdictIsLatest
    BY DEF Init, CopyInv, PairInv, VerdictIsLatest
  <1> QED BY <1>1, RangeStarts DEF ReportInv

LEMMA ReportOfSockets ==
  ASSUME ReportInv, NEW s \in Sockets,
         \/ Connects(s) \/ Drops(s) \/ RegisterReads(s) \/ RegisterChecks(s)
         \/ RegisterSaves(s) \/ DisconnectReads(s) \/ DisconnectSaves(s)
  PROVE  CopyInv' /\ PairInv' /\ VerdictIsLatest'
  <1>1. RangeInv
    BY DEF ReportInv
  <1>2. CASE Connects(s) \/ Drops(s)
    BY <1>2, ReportFrame DEF Connects, Drops, KeepsReports
  <1>3. CASE RegisterReads(s)
    <2>1. UNCHANGED <<row, reKey>>
      BY <1>3 DEF RegisterReads
    <2>2. /\ past'.mixed = past.mixed /\ past'.heard = past.heard /\ machine'.key = machine.key
          /\ machine'.token \in {None, machine.token}
      BY <1>1, <1>3, RegisterReadsTo DEF SameButCrossed
    <2> QED BY <2>1, <2>2, ReportFrame DEF KeepsReports
  <1>4. CASE RegisterChecks(s)
    <2>1. UNCHANGED <<row, reKey>>
      BY <1>4 DEF RegisterChecks
    <2>2. /\ past'.mixed = past.mixed /\ past'.heard = past.heard /\ machine'.key = machine.key
          /\ machine'.token \in {None, machine.token}
      BY <1>1, <1>4, RegisterChecksTo DEF SameButCrossed
    <2> QED BY <2>1, <2>2, ReportFrame DEF KeepsReports
  <1>5. CASE RegisterSaves(s)
    <2>1. KeepsReports /\ past'.mixed = past.mixed
      BY <1>1, <1>5, SavesTo DEF KeepsReports, SameButPlace
    <2> QED BY <1>5, <2>1, ReportFrame DEF RegisterSaves
  <1>6. CASE DisconnectReads(s)
    <2>1. past'.mixed = past.mixed /\ past'.heard = past.heard
      BY <1>1, <1>6, ReadsTo DEF DisconnectReads, RangeInv, SameButAlone
    <2> QED BY <1>6, <2>1, ReportFrame DEF DisconnectReads, KeepsReports
  <1>7. CASE DisconnectSaves(s)
    <2>1. KeepsReports
      BY <1>1, <1>7, LeavesTo DEF KeepsReports, SameButPlace, DisconnectSaves, Writes
    <2> QED BY <1>7, <2>1, ReportFrame DEF DisconnectSaves
  <1> QED BY <1>2, <1>3, <1>4, <1>5, <1>6, <1>7

LEMMA ReportOfKeySaves ==
  ASSUME ReportInv, KeySaves
  PROVE  CopyInv' /\ PairInv' /\ VerdictIsLatest'
  <1>1. RangeInv /\ CopyInv /\ PairInv
    BY DEF ReportInv
  <1>2. /\ reKey' = [at |-> "idle", seen |-> None] /\ machine' = machine /\ past'.heard = 0
        /\ past'.mixed <=> row # None /\ reKey.seen # None /\ row.verdict # reKey.seen.verdict
    BY <1>1, KeySavesTo DEF KeySaves
  <1>3. reKey.at = "save" /\ machine.key \in Keys
    BY <1>1 DEF KeySaves, RangeInv, Machines
  <1>4. CASE row = None /\ reKey.seen = None
    <2>1. row' = Created(machine.key)
      BY <1>1, <1>4, KeySavesTo
    <2>2. /\ row'.key = machine.key /\ row'.sequence = 0 /\ row'.verdict = None
      BY <1>3, <2>1, CreatedIs
    <2> QED BY <1>1, <1>2, <2>2 DEF CopyInv, PairInv, VerdictIsLatest
  <1>5. CASE row = None /\ reKey.seen # None
    <2>1. row' = None
      BY <1>1, <1>5, KeySavesTo
    <2> QED BY <1>1, <1>2, <2>1 DEF CopyInv, PairInv, VerdictIsLatest
  <1>6. CASE row # None
    <2>1. reKey.seen # None /\ machine.token = None
      BY <1>1, <1>3, <1>6 DEF CopyInv
    <2>2. /\ row' \in Rows /\ row'.key = machine.key
          /\ row'.sequence = IF reKey.seen.sequence = 0 THEN row.sequence ELSE 0
          /\ row'.verdict = IF reKey.seen.verdict = None THEN row.verdict ELSE None
      BY <1>1, <1>6, <2>1, KeySavesTo
    <2>3. CopyInv'
      BY <1>2, <2>1, <2>2 DEF CopyInv
    <2>4. PairInv'
      BY <1>1, <1>2, <1>6, <2>1, <2>2 DEF PairInv
    <2>5. VerdictIsLatest'
      BY <1>1, <1>2, <1>6, <2>1, <2>2 DEF PairInv, VerdictIsLatest
    <2> QED BY <2>3, <2>4, <2>5
  <1> QED BY <1>4, <1>5, <1>6

LEMMA ReportOfReportLands ==
  ASSUME ReportInv, NEW m \in Reports, ReportLands(m)
  PROVE  CopyInv' /\ PairInv' /\ VerdictIsLatest'
  <1>1. RangeInv /\ CopyInv /\ PairInv /\ VerdictIsLatest
    BY DEF ReportInv
  <1>2. UNCHANGED <<reKey, machine>> /\ past'.mixed = past.mixed
    BY <1>1, ReportsTo DEF ReportLands, SameButHeard
  <1>3. past'.heard = IF row # None /\ row.key = m.key /\ past.heard < m.sequence THEN m.sequence ELSE past.heard
    BY <1>1, ReportsTo
  <1>4. m.sequence \in 1..MaxSequence /\ m = [key |-> m.key, sequence |-> m.sequence] /\ m # None
    BY NoneAssumption DEF Reports
  <1>5. past.heard \in 0..MaxSequence /\ (row # None => row.sequence \in 0..MaxSequence)
    BY <1>1, PastOf, RowOf DEF RangeInv
  <1>6. CASE Accepts(m)
    <2>1. /\ row # None /\ row.key = m.key /\ row.sequence < m.sequence /\ row' # None
          /\ row'.sequence = m.sequence /\ row'.verdict = m /\ row'.key = row.key
      BY <1>1, <1>6, ReportsTo, RowOf DEF Accepts
    <2>2. CopyInv' /\ PairInv'
      BY <1>1, <1>2, <1>4, <1>5, <2>1, BoundsAssumption DEF CopyInv, PairInv
    <2>3. ~ past.mixed => past.heard < m.sequence
      <3>1. CASE past.heard = 0
        BY <1>4, <3>1, BoundsAssumption
      <3>2. ASSUME past.heard # 0, ~ past.mixed PROVE row.sequence = past.heard
        <4>1. row.verdict = [key |-> row.key, sequence |-> past.heard]
          BY <1>1, <2>1, <3>2 DEF VerdictIsLatest
        <4>2. row.verdict # None
          BY <1>1, <1>5, <2>1, <3>2, <4>1, NoneAssumption, RowOf, BoundsAssumption DEF Reports, RangeInv
        <4> QED BY <1>1, <2>1, <4>1, <4>2 DEF PairInv
      <3> QED BY <2>1, <3>1, <3>2
    <2>4. VerdictIsLatest'
      BY <1>2, <1>3, <1>4, <2>1, <2>3, BoundsAssumption DEF VerdictIsLatest
    <2> QED BY <2>2, <2>4
  <1>7. CASE ~ Accepts(m)
    <2>1. row' = row
      BY <1>1, <1>7, ReportsTo
    <2>2. CopyInv' /\ PairInv'
      BY <1>1, <1>2, <2>1 DEF CopyInv, PairInv
    <2>3. ASSUME row # None, ~ past.mixed, row.key = m.key PROVE ~ past.heard < m.sequence
      <3>1. ~ row.sequence < m.sequence
        BY <1>7, <2>3 DEF Accepts
      <3>2. row.sequence # 0 /\ row.verdict # None
        BY <1>1, <1>4, <1>5, <2>3, <3>1, BoundsAssumption DEF PairInv
      <3>3. row.verdict.sequence = past.heard /\ row.verdict.sequence = row.sequence
        BY <1>1, <2>3, <3>2 DEF VerdictIsLatest, PairInv
      <3> QED BY <3>1, <3>3
    <2>4. VerdictIsLatest'
      BY <1>1, <1>2, <1>3, <2>1, <2>3 DEF VerdictIsLatest
    <2> QED BY <2>2, <2>4
  <1> QED BY <1>6, <1>7

LEMMA ReportOfFails ==
  ASSUME ReportInv, Fails
  PROVE  CopyInv' /\ PairInv' /\ VerdictIsLatest'
  <1>1. RangeInv /\ CopyInv /\ PairInv /\ VerdictIsLatest
    BY DEF ReportInv
  <1>2. CASE KeyFails
    <2>1. reKey' = [at |-> "idle", seen |-> None] /\ UNCHANGED <<row, machine, past>>
      BY <1>2 DEF KeyFails
    <2> QED BY <1>1, <2>1 DEF CopyInv, PairInv, VerdictIsLatest
  <1>3. CASE SignInFails
    <2>1. UNCHANGED <<machine, past, reKey>> /\ KeepsReports
      BY <1>1, <1>3, SignInFailsTo DEF SignInFails, KeepsReports, SameButBinding
    <2> QED BY <2>1, ReportFrame
  <1>4. CASE RemovalFails
    BY <1>1, <1>4, RemovalFailsTo, ReportFrame DEF RemovalFails, KeepsReports, SameButCrossed
  <1>5. ASSUME NEW s \in Sockets, RegisterFails(s)
        PROVE  CopyInv' /\ PairInv' /\ VerdictIsLatest'
    <2>1. UNCHANGED <<row, reKey>>
      BY <1>5 DEF RegisterFails
    <2>2. /\ past'.mixed = past.mixed /\ past'.heard = past.heard /\ machine'.key = machine.key
          /\ machine'.token \in {None, machine.token}
      BY <1>1, <1>5, RegisterFailsTo DEF SameButCrossed
    <2> QED BY <2>1, <2>2, ReportFrame DEF KeepsReports
  <1>6. ASSUME NEW s \in Sockets, DisconnectFails(s)
        PROVE  CopyInv' /\ PairInv' /\ VerdictIsLatest'
    <2>1. past'.mixed = past.mixed /\ past'.heard = past.heard
      BY <1>1, <1>6, DisconnectFailsTo
    <2> QED BY <1>6, <2>1, ReportFrame DEF DisconnectFails, KeepsReports
  <1> QED BY <1>2, <1>3, <1>4, <1>5, <1>6 DEF Fails

LEMMA ReportStays == ReportInv /\ [Next]_vars => ReportInv'
  <1> SUFFICES ASSUME ReportInv, [Next]_vars PROVE CopyInv' /\ PairInv' /\ VerdictIsLatest'
    BY RangeStays DEF ReportInv
  <1>1. RangeInv /\ CopyInv /\ PairInv /\ VerdictIsLatest
    BY DEF ReportInv
  <1>2. CASE Reopens
    <2>1. /\ machine'.token = None /\ reKey.at = "idle" /\ UNCHANGED <<row, reKey>>
          /\ past'.mixed = past.mixed /\ past'.heard = past.heard
      BY <1>1, <1>2, ReopensTo DEF SameButCrossed, Reopens
    <2> QED BY <1>1, <2>1 DEF CopyInv, PairInv, VerdictIsLatest
  <1>3. CASE KeyReads
    <2>1. /\ UNCHANGED <<row, machine>> /\ past'.mixed = past.mixed /\ past'.heard = past.heard
          /\ row = None \/ row.key # machine.key
      BY <1>1, <1>3, ReadsTo DEF KeyReads, SameButAlone, Registered, RangeInv
    <2>2. /\ reKey'.at = "save" /\ (row = None => reKey'.seen = None)
          /\ row # None => reKey'.seen = Copy(row) /\ reKey'.seen # None
      BY <1>1, <1>3, KeyReadsTo
    <2>3. row # None => reKey'.seen.sequence = row.sequence /\ reKey'.seen.verdict = row.verdict
      BY <1>1, <2>2, CopyIs DEF RangeInv
    <2> QED BY <1>1, <2>1, <2>2, <2>3 DEF CopyInv, PairInv, VerdictIsLatest
  <1>4. CASE SignsIn
    <2>1. /\ row # None /\ row.key = machine.key /\ machine'.key = machine.key /\ machine'.token = machine.key
          /\ row'.key = row.key /\ row'.sequence = row.sequence /\ row'.verdict = row.verdict
          /\ past'.mixed = past.mixed /\ past'.heard = past.heard /\ UNCHANGED reKey
      BY <1>1, <1>4, SignsInTo DEF SameButBinding, SameButCrossed, SignsIn
    <2> QED BY <1>1, <2>1 DEF CopyInv, PairInv, VerdictIsLatest
  <1>5. CASE RemovalStep
    <2>1. KeepsReports
      BY <1>1, <1>5, RemovalFrame DEF KeepsReports, SameButBinding
    <2>2. past'.mixed = past.mixed /\ machine'.key = machine.key /\ machine'.token \in {None, machine.token}
      BY <1>1, <1>5, RemovalFrame
    <2> QED BY <1>5, <2>1, <2>2, ReportFrame DEF RemovalStep
  <1>6. CASE Restart
    <2>1. /\ UNCHANGED <<row, machine>> /\ reKey' = [at |-> "idle", seen |-> None]
          /\ past'.mixed = past.mixed /\ past'.heard = past.heard
      BY <1>1, <1>6, RestartTo DEF Restart
    <2> QED BY <1>1, <2>1 DEF CopyInv, PairInv, VerdictIsLatest
  <1>7. ASSUME NEW steps \in Removals, Removes(steps)
        PROVE  CopyInv' /\ PairInv' /\ VerdictIsLatest'
    <2>1. past'.mixed = past.mixed /\ past'.heard = past.heard
      BY <1>1, <1>7, RemovesTo
    <2> QED BY <1>7, <2>1, ReportFrame DEF Removes, KeepsReports
  <1>8. CASE UNCHANGED session
    BY <1>8, ReportFrame DEF session, KeepsReports
  <1> QED BY <1>2, <1>3, <1>4, <1>5, <1>6, <1>7, <1>8, Actions, ReportOfSockets, ReportOfKeySaves,
          ReportOfReportLands, ReportOfFails

\* The row is well-formed, and the verdict it stores is that of the latest check that arrived under its
\* key, whatever the order of reports, registrations, removals, rejected calls and restarts
\* (recordOrderedEnvironmentReport, registerKey).
THEOREM ReportsStaySound == Spec => []ReportsAreSound
  <1>1. ReportInv /\ CountInv => ReportsAreSound
    BY RangeGivesType DEF ReportInv, ReportsAreSound
  <1> QED BY <1>1, ReportStarts, ReportStays, CountStarts, CountStays, PTL DEF Spec

--------------------------------------------------------------------------------
(* Presence *)

\* What a socket's disconnect handler waits for.
PathInv ==
  /\ \A s \in live : off[s].at = "open"
  /\ past.last # None => off[past.last].at # "never"
  /\ \A s \in Registering : off[s].at # "never"

\* While nothing is blurred, the handler at work is the only one, and what it read is still so.
SoloInv ==
  /\ \A s \in Registering : ~ past.blurred => s \in past.alone
  /\ \A s \in Registering : s \in past.alone =>
       /\ Registering = {s} /\ Leaving = {} /\ reKey.at = "idle"
       /\ s \in live \/ off[s].at = "due" \/ s \in past.orphans
       /\ row # None => reg[s].online = row.online
  /\ \A s \in Leaving : ~ past.blurred =>
       /\ Leaving = {s} /\ Registering = {} /\ reKey.at = "idle"
       /\ row # None => row.socket = s

\* Where the row says the machine is, also while a handler is at work.
PlaceInv ==
  ~ past.blurred /\ row # None =>
    /\ past.last \in live => row.socket = past.last /\ row.online
    /\ row.socket # None =>
         row.socket \in live \union past.orphans \/ off[row.socket].at \in {"due", "save"}

PresenceInv == ReportInv /\ PathInv /\ SoloInv /\ PlaceInv

\* The row goes, or names the socket it named.
KeepsPlace == \/ row' = None
              \/ row # None /\ row'.socket = row.socket /\ row'.online = row.online

LEMMA SocketsIn ==
  ASSUME RangeInv
  PROVE  /\ None \notin Sockets /\ live \subseteq Sockets /\ past.last \in Sockets \union {None}
         /\ row # None => row.socket \in Sockets \union {None} /\ row.online \in BOOLEAN
         /\ past.alone \subseteq Sockets /\ past.orphans \subseteq Sockets
         /\ past.blurred \in BOOLEAN /\ past.crossed \in BOOLEAN
  BY NoneAssumption, RowOf, PastOf DEF RangeInv

LEMMA RegisteringKept == UNCHANGED reg => Registering' = Registering
  BY DEF Registering

LEMMA LeavingKept ==
  ASSUME \A t \in Sockets : off'[t].at = "save" <=> off[t].at = "save"
  PROVE  Leaving' = Leaving
  BY DEF Leaving

LEMMA RegisteringLess ==
  ASSUME NEW s \in Sockets, OnlyAt(s, reg, reg'), reg'[s].at = "idle"
  PROVE  Registering' = Registering \ {s}
  BY DEF Registering, OnlyAt

LEMMA RegisteringMore ==
  ASSUME NEW s \in Sockets, OnlyAt(s, reg, reg'), reg'[s].at # "idle"
  PROVE  Registering' = Registering \union {s}
  BY DEF Registering, OnlyAt

LEMMA PresenceFrame ==
  ASSUME PresenceInv, KeepsPlace, UNCHANGED <<live, reg, off, reKey>>, past'.blurred = past.blurred,
         past'.alone = past.alone, past'.last = past.last, past'.orphans = past.orphans
  PROVE  PathInv' /\ SoloInv' /\ PlaceInv'
  <1>1. Registering' = Registering /\ Leaving' = Leaving
    BY RegisteringKept, LeavingKept
  <1>2. PathInv'
    BY <1>1 DEF PresenceInv, PathInv
  <1>3. SoloInv'
    BY <1>1 DEF PresenceInv, SoloInv, KeepsPlace
  <1>4. PlaceInv'
    BY DEF PresenceInv, PlaceInv, KeepsPlace
  <1> QED BY <1>2, <1>3, <1>4

LEMMA PresenceStarts == Init => PresenceInv
  <1> SUFFICES ASSUME Init PROVE PathInv /\ SoloInv /\ PlaceInv
    BY ReportStarts DEF PresenceInv
  <1>1. Registering = {} /\ Leaving = {} /\ live = {} /\ past.last = None /\ row = None
    BY DEF Init, Registering, Leaving, Idle
  <1> QED BY <1>1 DEF PathInv, SoloInv, PlaceInv

LEMMA PresenceOfConnects ==
  ASSUME PresenceInv, NEW s \in Sockets, Connects(s)
  PROVE  PathInv' /\ SoloInv' /\ PlaceInv'
  <1>1. RangeInv /\ PathInv /\ SoloInv /\ PlaceInv
    BY DEF PresenceInv, ReportInv
  <1>2. /\ off[s].at = "never" /\ live = {} /\ live' = {s} /\ UNCHANGED <<row, reg, reKey, past>>
        /\ off'[s].at = "open" /\ \A t \in Sockets : t # s => off'[t] = off[t]
    BY <1>1, ConnectsTo DEF Connects, OnlyAt
  <1>3. Registering' = Registering /\ Leaving' = Leaving
    BY <1>2, RegisteringKept, LeavingKept
  <1>4. PathInv'
    BY <1>1, <1>2, <1>3, SocketsIn DEF PathInv, Registering
  <1>5. SoloInv'
    <2>1. \A t \in Registering : t \in Sockets /\ t # s
      BY <1>1, <1>2 DEF PathInv, Registering
    <2> QED BY <1>1, <1>2, <1>3, <2>1 DEF SoloInv
  <1>6. PlaceInv'
    <2>1. past.last # s
      BY <1>1, <1>2 , SocketsIn DEF PathInv
    <2>2. row # None /\ row.socket # None => row.socket \in Sockets
      BY <1>1, SocketsIn
    <2> QED BY <1>1, <1>2, <2>1, <2>2 DEF PlaceInv
  <1> QED BY <1>4, <1>5, <1>6

LEMMA PresenceOfDrops ==
  ASSUME PresenceInv, NEW s \in Sockets, Drops(s)
  PROVE  PathInv' /\ SoloInv' /\ PlaceInv'
  <1>1. RangeInv /\ PathInv /\ SoloInv /\ PlaceInv
    BY DEF PresenceInv, ReportInv
  <1>2. /\ s \in live /\ off[s].at = "open" /\ live' = live \ {s} /\ UNCHANGED <<row, reg, reKey, past>>
        /\ off'[s].at = "due" /\ \A t \in Sockets : t # s => off'[t] = off[t]
    BY <1>1, DropsTo DEF Drops, OnlyAt, PathInv
  <1>3. Registering' = Registering /\ Leaving' = Leaving
    BY <1>2, RegisteringKept, LeavingKept
  <1>4. PathInv'
    BY <1>1, <1>2, <1>3, SocketsIn DEF PathInv, Registering
  <1>5. SoloInv'
    BY <1>1, <1>2, <1>3 DEF SoloInv, Registering
  <1>6. PlaceInv'
    <2>1. row # None /\ row.socket # None => row.socket \in Sockets
      BY <1>1, SocketsIn
    <2> QED BY <1>1, <1>2, <2>1 DEF PlaceInv
  <1> QED BY <1>4, <1>5, <1>6

LEMMA PresenceOfReads ==
  ASSUME PresenceInv, NEW s \in Sockets, RegisterReads(s)
  PROVE  PathInv' /\ SoloInv' /\ PlaceInv'
  <1>1. RangeInv /\ PathInv /\ SoloInv /\ PlaceInv
    BY DEF PresenceInv, ReportInv
  <1>2. s \in live /\ UNCHANGED <<row, live, off, reKey>> /\ reg[s].at = "idle"
    BY DEF RegisterReads
  <1>3. CASE row = None
    <2>1. SameButCrossed(past, past') /\ reg' = reg
      BY <1>1, <1>3, RegisterReadsTo
    <2> QED BY <1>2, <1>3, <2>1, PresenceFrame DEF KeepsPlace, SameButCrossed
  <1>4. CASE row # None
    <2>1. /\ OnlyAt(s, reg, reg') /\ reg'[s].at = "check" /\ reg'[s].online = row.online
          /\ past'.blurred <=> past.blurred \/ ~ Alone
          /\ past'.alone = IF Alone THEN {s} ELSE {}
          /\ past'.last = past.last /\ past'.orphans = past.orphans
      BY <1>1, <1>4, RegisterReadsTo
    <2>2. Registering' = Registering \union {s} /\ Leaving' = Leaving
      BY <1>2, <2>1, RegisteringMore, LeavingKept
    <2>3. PathInv'
      BY <1>1, <1>2, <2>1, <2>2 DEF PathInv
    <2>4. SoloInv'
      <3>1. Alone => Registering = {} /\ Leaving = {} /\ reKey.at = "idle"
        BY DEF Alone
      <3> QED BY <1>2, <1>4, <2>1, <2>2, <3>1 DEF SoloInv
    <2>5. PlaceInv'
      BY <1>1, <1>2, <2>1 DEF PlaceInv
    <2> QED BY <2>3, <2>4, <2>5
  <1> QED BY <1>3, <1>4

LEMMA PresenceOfChecks ==
  ASSUME PresenceInv, NEW s \in Sockets, RegisterChecks(s)
  PROVE  PathInv' /\ SoloInv' /\ PlaceInv'
  <1>1. RangeInv /\ PathInv /\ SoloInv /\ PlaceInv
    BY DEF PresenceInv, ReportInv
  <1>2. UNCHANGED <<row, live, off, reKey>> /\ s \in Registering
    BY DEF RegisterChecks, Registering
  <1>3. /\ OnlyAt(s, reg, reg') /\ SameButCrossed(past, past')
        /\ reg'[s].at = "idle" \/ (reg'[s].at = "save" /\ reg'[s].online = reg[s].online)
    BY <1>1, RegisterChecksTo
  <1>4. /\ past'.blurred = past.blurred /\ past'.alone = past.alone /\ past'.last = past.last
        /\ past'.orphans = past.orphans
    BY <1>3 DEF SameButCrossed
  <1>5. Leaving' = Leaving /\ Registering' \subseteq Registering
    <2>1. Leaving' = Leaving
      BY <1>2, LeavingKept
    <2>2. CASE reg'[s].at = "idle"
      BY <1>3, <2>1, <2>2, RegisteringLess
    <2>3. CASE reg'[s].at = "save"
      BY <1>2, <1>3, <2>1, <2>3, RegisteringMore
    <2> QED BY <1>3, <2>2, <2>3
  <1>6. \A t \in Registering' : reg'[t].online = reg[t].online
    BY <1>3 DEF OnlyAt, Registering
  <1>7. PathInv'
    BY <1>1, <1>2, <1>4, <1>5 DEF PathInv
  <1>8. SoloInv'
    BY <1>1, <1>2, <1>4, <1>5, <1>6 DEF SoloInv
  <1>9. PlaceInv'
    BY <1>1, <1>2, <1>4 DEF PlaceInv
  <1> QED BY <1>7, <1>8, <1>9

LEMMA PresenceOfSaves ==
  ASSUME PresenceInv, NEW s \in Sockets, RegisterSaves(s)
  PROVE  PathInv' /\ SoloInv' /\ PlaceInv'
  <1>1. RangeInv /\ PathInv /\ SoloInv /\ PlaceInv
    BY DEF PresenceInv, ReportInv
  <1>2. UNCHANGED <<live, off, reKey>> /\ s \in Registering
    BY DEF RegisterSaves, Registering
  <1>3. /\ past'.alone = {} /\ (past'.blurred <=> past.blurred /\ s \notin past.alone)
        /\ past'.orphans = past.orphans
        /\ row = None => row' = None /\ past'.last = past.last
        /\ row # None => /\ row' # None /\ row'.socket = s /\ past'.last = s
                         /\ row'.online <=> row.online \/ ~ reg[s].online
    BY <1>1, SavesTo, RowOf
  <1>4. Registering' = Registering \ {s} /\ Leaving' = Leaving
    BY <1>1, <1>2, RegisterEnds, RegisteringLess, LeavingKept
  <1>5. ~ past'.blurred =>
          /\ Registering = {s} /\ Leaving = {} /\ (s \in live \/ off[s].at = "due" \/ s \in past.orphans)
          /\ row # None => reg[s].online = row.online
    BY <1>1, <1>2, <1>3 DEF SoloInv
  <1>6. PathInv'
    BY <1>1, <1>2, <1>3, <1>4 DEF PathInv
  <1>7. SoloInv'
    BY <1>3, <1>4, <1>5 DEF SoloInv
  <1>8. PlaceInv'
    <2>1. ~ past'.blurred /\ row # None => row'.online
      BY <1>1, <1>3, <1>5, SocketsIn
    <2> QED BY <1>2, <1>3, <1>5, <2>1 DEF PlaceInv
  <1> QED BY <1>6, <1>7, <1>8

LEMMA PresenceOfDisconnectReads ==
  ASSUME PresenceInv, NEW s \in Sockets, DisconnectReads(s)
  PROVE  PathInv' /\ SoloInv' /\ PlaceInv'
  <1>1. RangeInv /\ PathInv /\ SoloInv /\ PlaceInv
    BY DEF PresenceInv, ReportInv
  <1>2. UNCHANGED <<row, live, reg, reKey>> /\ off[s].at = "due"
    BY DEF DisconnectReads
  <1>3. /\ \A t \in Sockets : t # s => off'[t] = off[t]
        /\ off'[s].at = IF Finds(s) THEN "save" ELSE "over"
    BY <1>1, DisconnectReadsTo DEF OnlyAt
  <1>4. /\ past'.blurred <=> past.blurred \/ ~ Alone
        /\ past'.alone = {} /\ past'.last = past.last /\ past'.orphans = past.orphans
    BY <1>1, ReadsTo DEF DisconnectReads, SameButAlone, RangeInv
  <1>5. Registering' = Registering
    BY <1>2, RegisteringKept
  <1>6. PathInv'
    BY <1>1, <1>2, <1>3, <1>4, <1>5, SocketsIn DEF PathInv, Registering
  <1>7. SoloInv'
    <2>1. ~ past'.blurred => Registering = {} /\ Leaving = {} /\ reKey.at = "idle"
      BY <1>4 DEF Alone
    <2>2. Leaving = {} => Leaving' \subseteq {s}
      BY <1>3 DEF Leaving
    <2>3. s \in Leaving' => Finds(s)
      BY <1>3 DEF Leaving
    <2> QED BY <1>2, <1>4, <1>5, <2>1, <2>2, <2>3 DEF SoloInv, Finds
  <1>8. PlaceInv'
    <2>1. row # None /\ row.socket # None => row.socket \in Sockets
      BY <1>1, SocketsIn
    <2> QED BY <1>1, <1>2, <1>3, <1>4, <2>1 DEF PlaceInv, Finds
  <1> QED BY <1>6, <1>7, <1>8

LEMMA PresenceOfDisconnectSaves ==
  ASSUME PresenceInv, NEW s \in Sockets, DisconnectSaves(s)
  PROVE  PathInv' /\ SoloInv' /\ PlaceInv'
  <1>1. RangeInv /\ PathInv /\ SoloInv /\ PlaceInv
    BY DEF PresenceInv, ReportInv
  <1>2. UNCHANGED <<live, reg, reKey, past>> /\ s \in Leaving /\ off[s].at = "save"
    BY DEF DisconnectSaves, Leaving
  <1>3. off'[s].at = "over" /\ \A t \in Sockets : t # s => off'[t] = off[t]
    BY <1>1, DisconnectSavesTo DEF OnlyAt
  <1>4. (row = None => row' = None) /\ (row # None => row'.socket = None)
    BY <1>1, LeavesTo DEF DisconnectSaves, Writes
  <1>5. Registering' = Registering /\ Leaving' = Leaving \ {s}
    BY <1>2, <1>3, RegisteringKept DEF Leaving
  <1>6. PathInv'
    BY <1>1, <1>2, <1>3, <1>5, SocketsIn DEF PathInv, Registering
  <1>7. SoloInv'
    BY <1>1, <1>2, <1>5 DEF SoloInv
  <1>8. PlaceInv'
    <2>1. ~ past.blurred /\ row # None => past.last \notin live
      BY <1>1, <1>2 DEF SoloInv, PlaceInv, PathInv
    <2> QED BY <1>2, <1>4, <2>1 DEF PlaceInv
  <1> QED BY <1>6, <1>7, <1>8

LEMMA PresenceOfReopens ==
  ASSUME PresenceInv, Reopens
  PROVE  PathInv' /\ SoloInv' /\ PlaceInv'
  <1>1. RangeInv /\ PathInv /\ SoloInv /\ PlaceInv
    BY DEF PresenceInv, ReportInv
  <1>2. /\ live' = {} /\ UNCHANGED <<row, reg, reKey>>
        /\ \A t \in Sockets : off'[t].at = IF t \in live THEN "due" ELSE off[t].at
        /\ past'.blurred = past.blurred /\ past'.alone = past.alone /\ past'.last = past.last
        /\ past'.orphans = past.orphans
    BY <1>1, ReopensTo DEF Reopens, SameButCrossed
  <1>3. Registering' = Registering
    BY <1>2, RegisteringKept
  <1>4. Leaving' = Leaving
    BY <1>1, <1>2, LeavingKept DEF PathInv
  <1>5. PathInv'
    BY <1>1, <1>2, <1>3, SocketsIn DEF PathInv, Registering
  <1>6. SoloInv'
    BY <1>1, <1>2, <1>3, <1>4 DEF SoloInv, Registering
  <1>7. PlaceInv'
    <2>1. row # None /\ row.socket # None => row.socket \in Sockets
      BY <1>1, SocketsIn
    <2> QED BY <1>1, <1>2, <2>1 DEF PlaceInv
  <1> QED BY <1>5, <1>6, <1>7

LEMMA PresenceOfKeys ==
  ASSUME PresenceInv, KeyReads \/ KeySaves
  PROVE  PathInv' /\ SoloInv' /\ PlaceInv'
  <1>1. RangeInv /\ CopyInv /\ PathInv /\ SoloInv /\ PlaceInv
    BY DEF PresenceInv, ReportInv
  <1>2. Registering' = Registering /\ Leaving' = Leaving /\ UNCHANGED <<live, reg, off>>
    BY RegisteringKept, LeavingKept DEF KeyReads, KeySaves
  <1>3. CASE KeyReads
    <2>1. /\ past'.blurred <=> past.blurred \/ ~ Alone
          /\ past'.alone = {} /\ past'.last = past.last /\ past'.orphans = past.orphans
      BY <1>1, <1>3, ReadsTo DEF KeyReads, SameButAlone, RangeInv
    <2>2. ~ past'.blurred => Registering = {} /\ Leaving = {}
      BY <2>1 DEF Alone
    <2> QED BY <1>1, <1>2, <1>3, <2>1, <2>2 DEF KeyReads, PathInv, SoloInv, PlaceInv
  <1>4. CASE KeySaves
    <2>1. /\ past'.last = (IF row = None THEN None ELSE past.last)
          /\ past'.blurred = past.blurred /\ past'.alone = past.alone /\ past'.orphans = past.orphans
      BY <1>1, <1>4, KeySavesTo
    <2>2. reKey.at = "save" /\ machine.key \in Keys
      BY <1>1, <1>4 DEF KeySaves, RangeInv, Machines
    <2>3. row = None => row' = None \/ row'.socket = None
      BY <1>1, <1>4, <2>2, KeySavesTo, CreatedIs
    <2>4. row # None => row'.socket = row.socket /\ (row.online => row'.online)
      <3>1. row # None => reKey.seen # None
        BY <1>1, <2>2 DEF CopyInv
      <3> QED BY <1>1, <1>4, <3>1, KeySavesTo
    <2>5. PathInv'
      BY <1>1, <1>2, <2>1 DEF PathInv
    <2>6. SoloInv'
      BY <1>1, <1>2, <2>1, <2>2 DEF SoloInv
    <2>7. PlaceInv'
      BY <1>1, <1>2, <2>1, <2>3, <2>4, SocketsIn DEF PlaceInv
    <2> QED BY <2>5, <2>6, <2>7
  <1> QED BY <1>3, <1>4

LEMMA PresenceOfRestart ==
  ASSUME PresenceInv, Restart
  PROVE  PathInv' /\ SoloInv' /\ PlaceInv'
  <1>1. RangeInv /\ PathInv /\ SoloInv /\ PlaceInv
    BY DEF PresenceInv, ReportInv
  <1>2. /\ live' = {} /\ UNCHANGED row /\ (\A t \in Sockets : reg'[t].at = "idle")
        /\ \A t \in Sockets : off'[t].at = IF off[t].at = "never" THEN "never" ELSE "over"
        /\ past'.alone = {} /\ past'.blurred = past.blurred /\ past'.last = past.last
        /\ past'.orphans = past.orphans \union {s \in Sockets : Finds(s) /\ off[s].at \in {"open", "due", "save"}}
    BY <1>1, RestartTo DEF Restart
  <1>3. Registering' = {} /\ Leaving' = {}
    BY <1>2 DEF Registering, Leaving
  <1>4. PathInv'
    BY <1>1, <1>2, <1>3, SocketsIn DEF PathInv
  <1>5. SoloInv'
    BY <1>3 DEF SoloInv
  <1>6. PlaceInv'
    <2>1. row # None /\ row.socket # None => row.socket \in Sockets
      BY <1>1, SocketsIn
    <2>2. ASSUME ~ past.blurred, row # None, row.socket # None PROVE row.socket \in past'.orphans
      <3>1. row.socket \in past.orphans \/ off[row.socket].at \in {"open", "due", "save"}
        BY <1>1, <2>2 DEF PlaceInv, PathInv
      <3>2. Finds(row.socket)
        BY <2>2 DEF Finds
      <3> QED BY <1>2, <2>1, <2>2, <3>1, <3>2
    <2> QED BY <1>2, <2>2 DEF PlaceInv
  <1> QED BY <1>4, <1>5, <1>6

LEMMA PresenceOfFails ==
  ASSUME PresenceInv, Fails
  PROVE  PathInv' /\ SoloInv' /\ PlaceInv'
  <1>1. RangeInv /\ PathInv /\ SoloInv /\ PlaceInv
    BY DEF PresenceInv, ReportInv
  <1>2. CASE KeyFails
    <2>1. reKey'.at = "idle" /\ UNCHANGED <<row, live, reg, off, past>>
      BY <1>2 DEF KeyFails
    <2>2. Registering' = Registering /\ Leaving' = Leaving
      BY <2>1, RegisteringKept, LeavingKept
    <2> QED BY <1>1, <2>1, <2>2 DEF PathInv, SoloInv, PlaceInv
  <1>3. CASE SignInFails
    <2>1. KeepsPlace
      BY <1>1, <1>3, SignInFailsTo DEF KeepsPlace, SameButBinding
    <2> QED BY <1>3, <2>1, PresenceFrame DEF SignInFails
  <1>4. CASE RemovalFails
    <2>1. KeepsPlace /\ SameButCrossed(past, past')
      BY <1>1, <1>4, RemovalFailsTo DEF RemovalFails, KeepsPlace
    <2> QED BY <1>4, <2>1, PresenceFrame DEF RemovalFails, SameButCrossed
  <1>5. ASSUME NEW s \in Sockets, RegisterFails(s)
        PROVE  PathInv' /\ SoloInv' /\ PlaceInv'
    <2>1. UNCHANGED <<row, live, off, reKey>>
      BY <1>5 DEF RegisterFails
    <2>2. OnlyAt(s, reg, reg') /\ SameButCrossed(past, past') /\ reg'[s].at = "idle"
      BY <1>1, <1>5, RegisterFailsTo
    <2>3. /\ past'.blurred = past.blurred /\ past'.alone = past.alone /\ past'.last = past.last
          /\ past'.orphans = past.orphans
      BY <2>2 DEF SameButCrossed
    <2>4. Leaving' = Leaving /\ Registering' = Registering \ {s}
      BY <2>1, <2>2, LeavingKept, RegisteringLess
    <2>5. \A u \in Registering' : u \in Registering /\ reg'[u] = reg[u]
      BY <2>2, <2>4 DEF OnlyAt, Registering
    <2>6. PathInv'
      BY <1>1, <2>1, <2>3, <2>4 DEF PathInv
    <2>7. SoloInv'
      BY <1>1, <2>1, <2>3, <2>4, <2>5 DEF SoloInv
    <2>8. PlaceInv'
      BY <1>1, <2>1, <2>3 DEF PlaceInv
    <2> QED BY <2>6, <2>7, <2>8
  <1>6. ASSUME NEW s \in Sockets, DisconnectFails(s)
        PROVE  PathInv' /\ SoloInv' /\ PlaceInv'
    <2>1. UNCHANGED <<row, live, reg, reKey>> /\ off[s].at \in {"due", "save"}
      BY <1>6 DEF DisconnectFails
    <2>2. /\ off'[s].at = "over" /\ \A u \in Sockets : u # s => off'[u] = off[u]
          /\ past'.blurred = past.blurred /\ past'.alone = past.alone /\ past'.last = past.last
          /\ past'.orphans = past.orphans \union {s}
      BY <1>1, <1>6, DisconnectFailsTo DEF OnlyAt
    <2>3. Registering' = Registering /\ Leaving' = Leaving \ {s}
      BY <2>1, <2>2, RegisteringKept DEF Leaving
    <2>4. PathInv'
      BY <1>1, <2>1, <2>2, <2>3, SocketsIn DEF PathInv, Registering
    <2>5. SoloInv'
      BY <1>1, <2>1, <2>2, <2>3 DEF SoloInv, Registering
    <2>6. PlaceInv'
      <3>1. row # None /\ row.socket # None => row.socket \in Sockets
        BY <1>1, SocketsIn
      <3> QED BY <1>1, <2>1, <2>2, <3>1 DEF PlaceInv
    <2> QED BY <2>4, <2>5, <2>6
  <1> QED BY <1>2, <1>3, <1>4, <1>5, <1>6 DEF Fails

LEMMA PresenceStays == PresenceInv /\ [Next]_vars => PresenceInv'
  <1> SUFFICES ASSUME PresenceInv, [Next]_vars PROVE PathInv' /\ SoloInv' /\ PlaceInv'
    BY ReportStays DEF PresenceInv
  <1>1. RangeInv
    BY DEF PresenceInv, ReportInv
  <1>2. CASE SignsIn
    <2>1. KeepsPlace /\ SameButCrossed(past, past')
      BY <1>1, <1>2, SignsInTo DEF KeepsPlace, SameButBinding
    <2> QED BY <1>2, <2>1, PresenceFrame DEF SignsIn, SameButCrossed
  <1>3. CASE RemovalStep
    <2>1. /\ KeepsPlace /\ past'.blurred = past.blurred /\ past'.alone = past.alone
          /\ past'.last = past.last /\ past'.orphans = past.orphans
      BY <1>1, <1>3, RemovalFrame DEF KeepsPlace, SameButBinding
    <2> QED BY <1>3, <2>1, PresenceFrame DEF RemovalStep
  <1>4. ASSUME NEW m \in Reports, ReportLands(m)
        PROVE  PathInv' /\ SoloInv' /\ PlaceInv'
    <2>1. KeepsPlace /\ SameButHeard(past, past')
      BY <1>1, <1>4, ReportsTo DEF KeepsPlace, Accepts
    <2> QED BY <1>4, <2>1, PresenceFrame DEF ReportLands, SameButHeard
  <1>5. ASSUME NEW steps \in Removals, Removes(steps)
        PROVE  PathInv' /\ SoloInv' /\ PlaceInv'
    <2>1. /\ past'.blurred = past.blurred /\ past'.alone = past.alone /\ past'.last = past.last
          /\ past'.orphans = past.orphans
      BY <1>1, <1>5, RemovesTo
    <2> QED BY <1>5, <2>1, PresenceFrame DEF Removes, KeepsPlace
  <1>6. CASE UNCHANGED session
    BY <1>6, PresenceFrame DEF session, KeepsPlace
  <1> QED BY <1>2, <1>3, <1>4, <1>5, <1>6, Actions, PresenceOfConnects, PresenceOfDrops, PresenceOfReads,
          PresenceOfChecks, PresenceOfSaves, PresenceOfDisconnectReads, PresenceOfDisconnectSaves,
          PresenceOfReopens, PresenceOfKeys, PresenceOfRestart, PresenceOfFails

\* Since the last registration that ran alone, if no handlers overlapped: a machine whose registered
\* socket is connected is stored as online under that socket, and a socket the row names is connected,
\* has a disconnect to come, or was lost in a restart or in a disconnect whose call was rejected
\* (register, disconnect, registerKey).
THEOREM PresenceStaysTrue == Spec => []PresenceIsTrue
  <1>1. ASSUME PresenceInv PROVE PresenceIsTrue
    <2>1. PlaceInv /\ RangeInv
      BY <1>1 DEF PresenceInv, ReportInv
    <2>2. Alone => \A s \in Sockets : off[s].at # "save"
      BY DEF Alone, Leaving
    <2>3. row # None /\ row.socket # None => row.socket \in Sockets
      BY <2>1, SocketsIn
    <2> QED BY <2>1, <2>2, <2>3 DEF PlaceInv, PresenceIsTrue
  <1> QED BY <1>1, PresenceStarts, PresenceStays, PTL DEF Spec

--------------------------------------------------------------------------------
(* Removals *)

\* A removal that overlaps a registration is recorded as crossed while the machine holds a token.
ApartInv == ~ past.crossed /\ machine.token # None /\ removal # NoRemoval => Registering = {}

\* The row says what the machine's token says.
Fitting == row # None /\ row.key = machine.token /\ row.bound /\ row.status = "ONLINE"

\* A machine that is bound under a token is online, and a request that will clear the binding saw it.
OnlineInv ==
  ~ past.crossed /\ machine.token # None /\ row # None /\ row.bound =>
    /\ row.status = "ONLINE"
    /\ removal.left \in {<<"tell", "clear", "unseat">>, <<"clear", "unseat">>, <<"tell", "clear">>, <<"clear">>}
         => removal.seen.bound

\* What the register handler has found still holds.
SignedInv ==
  /\ \A s \in Sockets : reg[s].at = "save" => ~ reg[s].signed
  /\ \A s \in Registering : s \in past.alone /\ ~ past.crossed /\ machine.token # None =>
       /\ ~ reg[s].signed => Fitting /\ seat
       /\ reg[s].signed /\ reg[s].fits => Fitting

\* The machine is connected under a token, and no handlers overlapped.
Counts == ~ past.blurred /\ ~ past.crossed /\ past.last \in live /\ machine.token # None

\* What then holds at each step of a removal: until it tells the machine, that it will tell it.
ToldInv ==
  Counts =>
    /\ removal.left \in {<<>>} \union Removals => Fitting /\ seat
    /\ removal.left \in {<<"tell", "clear", "unseat">>, <<"tell", "clear">>} => Fitting /\ removal.seen.reached
    /\ removal.left \in {<<"tell", "clear", "unseat">>, <<"tellOnline", "seat", "destroy">>} => seat
    /\ removal.left = <<"look", "tell", "clear">> => Fitting
    /\ removal.left = <<"tellOnline", "seat", "destroy">> => Fitting /\ removal.seen.status = "ONLINE"
    /\ removal.left \notin {<<"clear", "unseat">>, <<"unseat">>, <<"clear">>, <<"seat", "destroy">>, <<"destroy">>}

RemovedInv == PresenceInv /\ ApartInv /\ OnlineInv /\ SignedInv /\ ToldInv

\* The row keeps its key and its binding, and goes on being there or not.
KeepsBinding ==
  \/ row = None /\ row' = None
  \/ /\ row # None /\ row' # None /\ row'.key = row.key /\ row'.bound = row.bound
     /\ row'.status = row.status

\* A machine that has a token had it before, and what was crossed stays so.
KeepsToken == ~ past'.crossed /\ machine'.token # None => ~ past.crossed /\ machine'.token = machine.token

LEMMA NoTokenNoDuty ==
  ASSUME machine'.token = None, SignedInv, \A s \in Sockets : reg'[s].at = "save" => ~ reg'[s].signed
  PROVE  ApartInv' /\ OnlineInv' /\ SignedInv' /\ ToldInv'
  BY DEF ApartInv, OnlineInv, SignedInv, ToldInv, Counts

LEMMA RemovedFrame ==
  ASSUME RemovedInv, KeepsBinding, KeepsToken, UNCHANGED <<seat, removal>>,
         Registering' \subseteq Registering,
         \A s \in Registering' : reg'[s] = reg[s] /\ (s \in past'.alone => s \in past.alone),
         ~ past'.blurred => ~ past.blurred,
         past'.last \in live' => past'.last = past.last /\ past.last \in live
  PROVE  ApartInv' /\ OnlineInv' /\ SignedInv' /\ ToldInv'
  <1>1. ApartInv'
    BY DEF RemovedInv, ApartInv, KeepsToken
  <1>2. OnlineInv'
    BY DEF RemovedInv, OnlineInv, KeepsToken, KeepsBinding
  <1>3. ~ past'.crossed /\ machine'.token # None /\ Fitting => Fitting'
    BY DEF Fitting, KeepsToken, KeepsBinding
  <1>4. SignedInv'
    <2>1. \A s \in Sockets : reg'[s].at = "save" => s \in Registering'
      BY DEF Registering
    <2> QED BY <1>3, <2>1 DEF RemovedInv, SignedInv, KeepsToken
  <1>5. ToldInv'
    <2>1. Counts' => Counts
      BY DEF Counts, KeepsToken
    <2>2. Counts' => ~ past'.crossed /\ machine'.token # None
      BY DEF Counts
    <2> HIDE DEF Counts
    <2> QED BY <1>3, <2>1, <2>2 DEF RemovedInv, ToldInv
  <1> QED BY <1>1, <1>2, <1>4, <1>5

LEMMA RemovedStarts == Init => RemovedInv
  <1> SUFFICES ASSUME Init PROVE ApartInv /\ OnlineInv /\ SignedInv /\ ToldInv
    BY PresenceStarts DEF RemovedInv
  <1>1. machine.token = None /\ \A s \in Sockets : reg[s].at = "idle"
    BY DEF Init, Idle
  <1> QED BY <1>1 DEF ApartInv, OnlineInv, SignedInv, ToldInv, Counts

LEMMA RemovedOfReads ==
  ASSUME RemovedInv, NEW s \in Sockets, RegisterReads(s)
  PROVE  ApartInv' /\ OnlineInv' /\ SignedInv' /\ ToldInv'
  <1>1. RangeInv /\ ApartInv /\ OnlineInv /\ SignedInv /\ ToldInv
    BY DEF RemovedInv, PresenceInv, ReportInv
  <1>2. UNCHANGED <<row, seat, live, off, reKey, removal>>
    BY DEF RegisterReads
  <1>3. CASE row = None
    <2>1. machine'.token = None /\ reg' = reg
      BY <1>1, <1>3, RegisterReadsTo
    <2> QED BY <1>1, <2>1, NoTokenNoDuty DEF SignedInv
  <1>4. CASE row # None
    <2>1. /\ OnlyAt(s, reg, reg') /\ reg'[s].at = "check" /\ machine' = machine
          /\ reg'[s].signed <=> machine.token # None
          /\ reg'[s].fits <=> row.key = machine.token /\ row.bound
          /\ past'.blurred <=> past.blurred \/ ~ Alone
          /\ past'.alone \subseteq {s}
          /\ past'.crossed <=> past.crossed \/ removal # NoRemoval
          /\ past'.last = past.last
      BY <1>1, <1>4, RegisterReadsTo
    <2>2. ApartInv'
      BY <1>2, <2>1 DEF ApartInv
    <2>3. OnlineInv'
      BY <1>1, <1>2, <2>1 DEF OnlineInv
    <2>4. SignedInv'
      <3>1. \A t \in Sockets : reg'[t].at = "save" => ~ reg'[t].signed
        BY <1>1, <2>1 DEF SignedInv, OnlyAt
      <3>2. ASSUME ~ past'.crossed, machine.token # None, reg'[s].fits PROVE Fitting'
        BY <1>1, <1>2, <1>4, <2>1, <3>2 DEF OnlineInv, Fitting
      <3> QED BY <2>1, <3>1, <3>2 DEF SignedInv
    <2>5. ToldInv'
      <3>1. Counts' => Counts
        BY <1>2, <2>1 DEF Counts
      <3>2. Fitting' <=> Fitting
        BY <1>2, <2>1 DEF Fitting
      <3> HIDE DEF Counts, Fitting
      <3> QED BY <1>1, <1>2, <3>1, <3>2 DEF ToldInv
    <2> QED BY <2>2, <2>3, <2>4, <2>5
  <1> QED BY <1>3, <1>4

LEMMA RemovedOfChecks ==
  ASSUME RemovedInv, NEW s \in Sockets, RegisterChecks(s)
  PROVE  ApartInv' /\ OnlineInv' /\ SignedInv' /\ ToldInv'
  <1>1. RangeInv /\ ApartInv /\ OnlineInv /\ SignedInv /\ ToldInv
    BY DEF RemovedInv, PresenceInv, ReportInv
  <1>2. UNCHANGED <<row, seat, live, off, reKey, removal>> /\ s \in Registering
    BY DEF RegisterChecks, Registering
  <1>3. OnlyAt(s, reg, reg') /\ SameButCrossed(past, past')
    BY <1>1, RegisterChecksTo
  <1>4. CASE /\ Believes(s) /\ reg'[s].at = "save" /\ ~ reg'[s].signed
             /\ machine' = machine /\ past' = past
    <2>1. Registering' = Registering
      BY <1>2, <1>3, <1>4, RegisteringMore
    <2>2. ApartInv' /\ OnlineInv'
      BY <1>1, <1>2, <1>4, <2>1 DEF ApartInv, OnlineInv
    <2>3. (Fitting' <=> Fitting) /\ (Counts' <=> Counts)
      BY <1>2, <1>4 DEF Fitting, Counts
    <2>4. ToldInv'
      BY <1>1, <1>2, <2>3 DEF ToldInv
    <2>5. SignedInv'
      <3>1. ASSUME s \in past.alone, ~ past.crossed, machine.token # None PROVE Fitting /\ seat
        <4>1. (~ reg[s].signed => Fitting /\ seat) /\ (reg[s].signed /\ reg[s].fits => Fitting)
          BY <1>1, <1>2, <3>1 DEF SignedInv
        <4>2. reg[s].signed => reg[s].fits /\ seat
          BY <1>4 DEF Believes
        <4> QED BY <4>1, <4>2
      <3>2. \A t \in Sockets : reg'[t].at = "save" => ~ reg'[t].signed
        BY <1>1, <1>3, <1>4 DEF SignedInv, OnlyAt
      <3>3. \A t \in Registering : t \in Sockets /\ (t # s => reg'[t] = reg[t])
        BY <1>3 DEF OnlyAt, Registering
      <3> QED BY <1>1, <1>2, <1>4, <2>1, <2>3, <3>1, <3>2, <3>3 DEF SignedInv
    <2> QED BY <2>2, <2>4, <2>5
  <1>5. CASE /\ reg'[s].at = "idle" /\ (past'.crossed => past.crossed)
             /\ \/ machine'.token = None
                \/ machine'.token = machine.token /\ (past'.crossed <=> past.crossed)
    <2>1. Registering' = Registering \ {s}
      BY <1>3, <1>5, RegisteringLess
    <2>2. CASE machine'.token = None
      BY <1>1, <1>3, <1>5, <2>2, NoTokenNoDuty DEF SignedInv, OnlyAt
    <2>3. CASE machine'.token = machine.token /\ (past'.crossed <=> past.crossed)
      <3>1. KeepsBinding /\ KeepsToken
        BY <1>2, <2>3 DEF KeepsBinding, KeepsToken
      <3>2. \A t \in Registering' : reg'[t] = reg[t] /\ (t \in past'.alone => t \in past.alone)
        BY <1>3, <2>1 DEF OnlyAt, Registering, SameButCrossed
      <3> QED BY <1>2, <1>3, <2>1, <3>1, <3>2, RemovedFrame DEF SameButCrossed
    <2> QED BY <1>5, <2>2, <2>3
  <1> QED BY <1>1, <1>4, <1>5, RegisterChecksTo

LEMMA RemovedOfSaves ==
  ASSUME RemovedInv, NEW s \in Sockets, RegisterSaves(s)
  PROVE  ApartInv' /\ OnlineInv' /\ SignedInv' /\ ToldInv'
  <1>1. RangeInv /\ SoloInv /\ ApartInv /\ OnlineInv /\ SignedInv /\ ToldInv
    BY DEF RemovedInv, PresenceInv, ReportInv
  <1>2. UNCHANGED <<seat, live, off, reKey, removal, machine>> /\ s \in Registering /\ ~ reg[s].signed
    BY <1>1 DEF RegisterSaves, Registering, SignedInv
  <1>3. /\ OnlyAt(s, reg, reg') /\ reg'[s].at = "idle" /\ Registering' = Registering \ {s}
    BY <1>1, RegisterEnds, RegisteringLess
  <1>4. /\ past'.alone = {} /\ (past'.blurred <=> past.blurred /\ s \notin past.alone)
        /\ past'.crossed = past.crossed
    BY <1>1, SavesTo
  <1>5. KeepsBinding
    BY <1>1, SavesTo, RowOf DEF KeepsBinding, SameButPlace
  <1>6. Fitting => Fitting'
    BY <1>2, <1>5 DEF Fitting, KeepsBinding
  <1>7. ApartInv'
    BY <1>1, <1>2, <1>3, <1>4 DEF ApartInv
  <1>8. OnlineInv'
    BY <1>1, <1>2, <1>4, <1>5 DEF OnlineInv, KeepsBinding
  <1>9. SignedInv'
    BY <1>1, <1>3, <1>4 DEF SignedInv, OnlyAt
  <1>10. ToldInv'
    <2>1. ASSUME Counts' PROVE Fitting' /\ seat' /\ removal' = NoRemoval
      <3>1. s \in past.alone /\ ~ past.crossed /\ machine.token # None
        BY <1>1, <1>2, <1>4, <2>1 DEF Counts, SoloInv
      <3>2. Fitting /\ seat
        BY <1>1, <1>2, <3>1 DEF SignedInv
      <3>3. removal = NoRemoval
        BY <1>1, <1>2, <3>1 DEF ApartInv
      <3> QED BY <1>2, <1>6, <3>2, <3>3
    <2>2. NoRemoval.left = <<>>
      BY NothingIs
    <2> HIDE DEF Counts, Fitting
    <2> QED BY <2>1, <2>2 DEF ToldInv, Removals
  <1> QED BY <1>7, <1>8, <1>9, <1>10

LEMMA RemovedOfKeySaves ==
  ASSUME RemovedInv, KeySaves
  PROVE  ApartInv' /\ OnlineInv' /\ SignedInv' /\ ToldInv'
  <1>1. RangeInv /\ CopyInv /\ SoloInv /\ ApartInv /\ OnlineInv /\ SignedInv /\ ToldInv
    BY DEF RemovedInv, PresenceInv, ReportInv
  <1>2. UNCHANGED <<seat, live, reg, off, removal, machine>> /\ reKey.at = "save"
    BY DEF KeySaves
  <1>3. CASE machine.token = None
    BY <1>1, <1>2, <1>3, NoTokenNoDuty DEF SignedInv
  <1>4. CASE machine.token # None
    <2>1. row = None
      BY <1>1, <1>2, <1>4 DEF CopyInv
    <2>2. /\ past'.last = None /\ past'.crossed = past.crossed /\ past'.alone = past.alone
      BY <1>1, <2>1, KeySavesTo
    <2>3. row' # None => row'.bound = FALSE
      BY <1>1, <2>1, KeySavesTo, CreatedIs DEF RangeInv, Machines
    <2>4. Registering' = Registering /\ (\A t \in Registering : t \notin past.alone)
      BY <1>1, <1>2, RegisteringKept DEF SoloInv
    <2>5. ~ Counts'
      BY <1>1, <1>2, <2>2, SocketsIn DEF Counts
    <2> QED BY <1>1, <1>2, <2>2, <2>3, <2>4, <2>5 DEF ApartInv, OnlineInv, SignedInv, ToldInv
  <1> QED BY <1>3, <1>4

LEMMA RemovedOfSignsIn ==
  ASSUME RemovedInv, SignsIn
  PROVE  ApartInv' /\ OnlineInv' /\ SignedInv' /\ ToldInv'
  <1>1. RangeInv /\ SignedInv
    BY DEF RemovedInv, PresenceInv, ReportInv
  <1>2. UNCHANGED <<live, reg, off, reKey, removal>> /\ Registering' = Registering
    BY RegisteringKept DEF SignsIn
  <1>3. /\ row' # None /\ row'.key = machine'.token /\ row'.bound = TRUE /\ row'.status = "ONLINE" /\ seat' = TRUE
        /\ past'.crossed <=> past.crossed \/ removal # NoRemoval
    BY <1>1, SignsInTo, RowOf DEF SameButBinding
  <1>4. Fitting'
    BY <1>3 DEF Fitting
  <1>5. ~ past'.crossed => removal' = NoRemoval
    BY <1>2, <1>3
  <1>6. ApartInv'
    BY <1>5 DEF ApartInv
  <1>7. OnlineInv'
    BY <1>3, <1>5, NothingIs DEF OnlineInv
  <1>8. SignedInv'
    BY <1>1, <1>2, <1>3, <1>4 DEF SignedInv
  <1>9. ToldInv'
    <2>1. Counts' => removal' = NoRemoval
      BY <1>5 DEF Counts
    <2> HIDE DEF Counts, Fitting
    <2> QED BY <1>3, <1>4, <2>1, NothingIs DEF ToldInv
  <1> QED BY <1>6, <1>7, <1>8, <1>9

LEMMA RemovedOfRemoves ==
  ASSUME RemovedInv, NEW steps \in Removals, Removes(steps)
  PROVE  ApartInv' /\ OnlineInv' /\ SignedInv' /\ ToldInv'
  <1>1. RangeInv /\ OnlineInv /\ SignedInv /\ ToldInv
    BY DEF RemovedInv, PresenceInv, ReportInv
  <1>2. UNCHANGED <<row, seat, live, reg, off, reKey, machine>> /\ Registering' = Registering
    BY RegisteringKept DEF Removes
  <1>3. /\ removal = NoRemoval /\ removal'.left = steps
        /\ past'.crossed <=> past.crossed \/ Registering # {}
        /\ past'.blurred = past.blurred /\ past'.alone = past.alone /\ past'.last = past.last
    BY <1>1, RemovesTo
  <1>4. Fitting' <=> Fitting
    BY <1>2 DEF Fitting
  <1>5. ApartInv'
    BY <1>2, <1>3 DEF ApartInv
  <1>6. steps \notin {<<"tell", "clear", "unseat">>, <<"clear", "unseat">>, <<"tell", "clear">>, <<"clear">>}
    BY DEF Removals
  <1>7. OnlineInv'
    BY <1>1, <1>2, <1>3, <1>6 DEF OnlineInv
  <1>8. SignedInv'
    BY <1>1, <1>2, <1>3 DEF SignedInv
  <1>9. ToldInv'
    <2>1. Counts' => Counts
      BY <1>2, <1>3 DEF Counts
    <2>2. Counts => Fitting /\ seat
      BY <1>1, <1>3, NothingIs DEF ToldInv
    <2>3. /\ steps \notin {<<"tell", "clear", "unseat">>, <<"tell", "clear">>}
          /\ steps # <<"look", "tell", "clear">> /\ steps # <<"tellOnline", "seat", "destroy">>
          /\ steps \notin {<<"clear", "unseat">>, <<"unseat">>, <<"clear">>, <<"seat", "destroy">>, <<"destroy">>}
      BY DEF Removals
    <2> HIDE DEF Counts, Fitting
    <2> QED BY <1>2, <1>3, <1>4, <2>1, <2>2, <2>3 DEF ToldInv
  <1> QED BY <1>5, <1>7, <1>8, <1>9

LEMMA RemovedOfRestart ==
  ASSUME RemovedInv, Restart
  PROVE  ApartInv' /\ OnlineInv' /\ SignedInv' /\ ToldInv'
  <1>1. RangeInv /\ OnlineInv
    BY DEF RemovedInv, PresenceInv, ReportInv
  <1>2. /\ UNCHANGED <<row, machine>> /\ live' = {} /\ removal' = NoRemoval
        /\ \A t \in Sockets : reg'[t].at = "idle"
        /\ past'.crossed = past.crossed
    BY <1>1, RestartTo DEF Restart
  <1>3. Registering' = {}
    BY <1>2 DEF Registering
  <1>4. OnlineInv'
    BY <1>1, <1>2, NothingIs DEF OnlineInv
  <1> QED BY <1>2, <1>3, <1>4 DEF ApartInv, SignedInv, ToldInv, Counts

\* A step of a removal leaves the two invariants that look at what is left of it.
LEMMA RemovedOfStep ==
  ASSUME RemovedInv, Steps, removal # NoRemoval, UNCHANGED live,
         ~ past.crossed, machine.token # None, machine'.token = machine.token, machine'.key = machine.key,
         past'.crossed = past.crossed, past'.blurred = past.blurred, past'.last = past.last
  PROVE  OnlineInv' /\ ToldInv'
  <1>1. RangeInv /\ PlaceInv /\ OnlineInv /\ ToldInv /\ removal \in [left : Lefts, seen : Seen]
    BY DEF RemovedInv, PresenceInv, ReportInv, RangeInv
  <1>2. Counts' => Counts
    BY DEF Counts
  <1>3. Counts /\ row # None => row.socket = past.last /\ row.socket \in live /\ row.socket # None
    BY <1>1, SocketsIn DEF Counts, PlaceInv
  <1>4. UNCHANGED row => (Fitting' <=> Fitting)
    BY DEF Fitting
  <1>5. Fitting => row # None
    BY DEF Fitting
  <1>6. CASE removal.left = <<"look", "tell", "clear", "unseat">>
    <2>1. LooksOn(<<"tell", "clear", "unseat">>) /\ <<"tell", "clear", "unseat">> \in Lefts /\ <<"tell", "clear", "unseat">> # <<>>
      BY <1>6 DEF Steps, Lefts
    <2>2. /\ row = None => removal' = NoRemoval
          /\ row # None =>
               /\ removal'.left = <<"tell", "clear", "unseat">> /\ removal'.seen.status = row.status
               /\ <<"tell", "clear", "unseat">> \in {<<"tell", "clear", "unseat">>, <<"tell", "clear">>} =>
                    (removal'.seen.reached <=> row.socket # None) /\ (removal'.seen.bound <=> row.bound)
      BY <1>1, <2>1, LooksTo
    <2>3. UNCHANGED <<row, seat>>
      BY <2>1 DEF LooksOn
    <2>4. Counts => Fitting /\ seat
      BY <1>1, <1>6 DEF ToldInv, Removals
    <2>5. OnlineInv'
      BY <1>1, <2>2, <2>3, NothingIs DEF OnlineInv
    <2>6. Fitting => row.status = "ONLINE"
      BY DEF Fitting
    <2> HIDE DEF Counts, Fitting
    <2>7. row = None => ~ Counts'
      BY <1>2, <1>5, <2>4
    <2>8. <<"tell", "clear", "unseat">> \notin {<<>>} \union Removals \union
            {<<"clear", "unseat">>, <<"unseat">>, <<"clear">>, <<"seat", "destroy">>, <<"destroy">>}
      BY DEF Removals
    <2>9. ASSUME row # None, Counts'
          PROVE  /\ removal'.left = <<"tell", "clear", "unseat">> /\ Fitting' /\ seat' /\ removal'.seen.status = "ONLINE"
                 /\ <<"tell", "clear", "unseat">> \in {<<"tell", "clear", "unseat">>, <<"tell", "clear">>} => removal'.seen.reached
      BY <1>2, <1>3, <1>4, <2>2, <2>3, <2>4, <2>6, <2>9
    <2>10. ToldInv'
      BY <2>7, <2>8, <2>9 DEF ToldInv
    <2> QED BY <2>5, <2>10
  <1>7. CASE removal.left = <<"tell", "clear", "unseat">>
    <2>1. /\ GoesOn(<<"clear", "unseat">>) /\ Tells(removal.seen.reached) /\ UNCHANGED <<row, seat>>
          /\ <<"clear", "unseat">> \in Lefts /\ <<"clear", "unseat">> # <<>>
      <3>1. <<"clear", "unseat">> \in Lefts /\ <<"clear", "unseat">> # <<>>
        BY DEF Lefts
      <3> QED BY <1>7, <3>1 DEF Steps, Tells
    <2>2. removal'.left = <<"clear", "unseat">> /\ removal'.seen = removal.seen
      BY <1>1, <2>1, GoesTo
    <2>3. Counts => Fitting /\ removal.seen.reached
      BY <1>1, <1>7 DEF ToldInv, Removals
    <2>4. Counts => machine'.token = None
      BY <1>1, <1>3, <1>5, <2>1, <2>3, TellsTo
    <2>5. ~ Counts'
      BY <1>2, <2>4
    <2>6. OnlineInv'
      BY <1>1, <1>7, <2>1, <2>2 DEF OnlineInv
    <2> QED BY <2>5, <2>6 DEF ToldInv
  <1>8. CASE removal.left = <<"clear", "unseat">>
    <2>1. GoesOn(<<"unseat">>) /\ Writes(Unbinds(removal.seen)) /\ UNCHANGED <<seat, machine, past>> /\ <<"unseat">> \in Lefts
      BY <1>8 DEF Steps, Lefts
    <2>2. removal'.left = <<"unseat">> /\ removal'.seen = removal.seen
      BY <1>1, <2>1, GoesTo
    <2>3. ~ Counts'
      BY <1>1, <1>2, <1>8 DEF ToldInv
    <2>4. row # None /\ row.bound => removal.seen.bound
      BY <1>1, <1>8 DEF OnlineInv
    <2>5. row' # None => ~ row'.bound
      BY <1>1, <2>1, <2>4, ClearsTo
    <2>6. OnlineInv'
      BY <2>5 DEF OnlineInv
    <2> QED BY <2>3, <2>6 DEF ToldInv
  <1>9. CASE removal.left = <<"unseat">>
    <2>1. GoesOn(<<>>) /\ UNCHANGED <<row, machine, past>> /\ <<>> \in Lefts
      BY <1>9 DEF Steps, Lefts
    <2>2. removal'.left = <<>>
      BY <1>1, <2>1, GoesTo
    <2>3. ~ Counts'
      BY <1>1, <1>2, <1>9 DEF ToldInv
    <2>6. OnlineInv'
      BY <1>1, <2>1, <2>2 DEF OnlineInv
    <2> QED BY <2>3, <2>6 DEF ToldInv
  <1>10. CASE removal.left = <<"seat", "look", "tell", "clear">>
    <2>1. GoesOn(<<"look", "tell", "clear">>) /\ UNCHANGED <<row, machine, past>> /\ <<"look", "tell", "clear">> \in Lefts
      BY <1>10 DEF Steps, Lefts
    <2>2. removal'.left = <<"look", "tell", "clear">>
      BY <1>1, <2>1, GoesTo
    <2>3. Counts => Fitting
      BY <1>1, <1>10 DEF ToldInv, Removals
    <2>4. OnlineInv'
      BY <1>1, <2>1, <2>2 DEF OnlineInv
    <2> HIDE DEF Counts, Fitting
    <2>5. ToldInv'
      BY <1>2, <1>4, <2>1, <2>2, <2>3 DEF ToldInv, Removals
    <2> QED BY <2>4, <2>5
  <1>11. CASE removal.left = <<"look", "tell", "clear">>
    <2>1. LooksOn(<<"tell", "clear">>) /\ <<"tell", "clear">> \in Lefts /\ <<"tell", "clear">> # <<>>
      BY <1>11 DEF Steps, Lefts
    <2>2. /\ row = None => removal' = NoRemoval
          /\ row # None =>
               /\ removal'.left = <<"tell", "clear">> /\ removal'.seen.status = row.status
               /\ <<"tell", "clear">> \in {<<"tell", "clear", "unseat">>, <<"tell", "clear">>} =>
                    (removal'.seen.reached <=> row.socket # None) /\ (removal'.seen.bound <=> row.bound)
      BY <1>1, <2>1, LooksTo
    <2>3. UNCHANGED <<row, seat>>
      BY <2>1 DEF LooksOn
    <2>4. Counts => Fitting
      BY <1>1, <1>11 DEF ToldInv, Removals
    <2>5. OnlineInv'
      BY <1>1, <2>2, <2>3, NothingIs DEF OnlineInv
    <2>6. Fitting => row.status = "ONLINE"
      BY DEF Fitting
    <2> HIDE DEF Counts, Fitting
    <2>7. row = None => ~ Counts'
      BY <1>2, <1>5, <2>4
    <2>8. <<"tell", "clear">> \notin {<<>>} \union Removals \union
            {<<"clear", "unseat">>, <<"unseat">>, <<"clear">>, <<"seat", "destroy">>, <<"destroy">>,
             <<"tell", "clear", "unseat">>, <<"tellOnline", "seat", "destroy">>}
      BY DEF Removals
    <2>9. ASSUME row # None, Counts'
          PROVE  /\ removal'.left = <<"tell", "clear">> /\ Fitting' /\ removal'.seen.status = "ONLINE"
                 /\ <<"tell", "clear">> \in {<<"tell", "clear", "unseat">>, <<"tell", "clear">>} => removal'.seen.reached
      BY <1>2, <1>3, <1>4, <2>2, <2>3, <2>4, <2>6, <2>9
    <2>10. ToldInv'
      BY <2>7, <2>8, <2>9 DEF ToldInv
    <2> QED BY <2>5, <2>10
  <1>12. CASE removal.left = <<"tell", "clear">>
    <2>1. /\ GoesOn(<<"clear">>) /\ Tells(removal.seen.reached) /\ UNCHANGED <<row, seat>>
          /\ <<"clear">> \in Lefts /\ <<"clear">> # <<>>
      <3>1. <<"clear">> \in Lefts /\ <<"clear">> # <<>>
        BY DEF Lefts
      <3> QED BY <1>12, <3>1 DEF Steps, Tells
    <2>2. removal'.left = <<"clear">> /\ removal'.seen = removal.seen
      BY <1>1, <2>1, GoesTo
    <2>3. Counts => Fitting /\ removal.seen.reached
      BY <1>1, <1>12 DEF ToldInv, Removals
    <2>4. Counts => machine'.token = None
      BY <1>1, <1>3, <1>5, <2>1, <2>3, TellsTo
    <2>5. ~ Counts'
      BY <1>2, <2>4
    <2>6. OnlineInv'
      BY <1>1, <1>12, <2>1, <2>2 DEF OnlineInv
    <2> QED BY <2>5, <2>6 DEF ToldInv
  <1>13. CASE removal.left = <<"clear">>
    <2>1. GoesOn(<<>>) /\ Writes(Unbinds(removal.seen)) /\ UNCHANGED <<seat, machine, past>> /\ <<>> \in Lefts
      BY <1>13 DEF Steps, Lefts
    <2>2. removal'.left = <<>>
      BY <1>1, <2>1, GoesTo
    <2>3. ~ Counts'
      BY <1>1, <1>2, <1>13 DEF ToldInv
    <2>4. row # None /\ row.bound => removal.seen.bound
      BY <1>1, <1>13 DEF OnlineInv
    <2>5. row' # None => ~ row'.bound
      BY <1>1, <2>1, <2>4, ClearsTo
    <2>6. OnlineInv'
      BY <2>5 DEF OnlineInv
    <2> QED BY <2>3, <2>6 DEF ToldInv
  <1>14. CASE removal.left = <<"call", "look", "tellOnline", "seat", "destroy">>
    <2>1. /\ GoesOn(<<"look", "tellOnline", "seat", "destroy">>) /\ Tells(TRUE) /\ UNCHANGED <<row, seat>>
          /\ <<"look", "tellOnline", "seat", "destroy">> \in Lefts /\ <<"look", "tellOnline", "seat", "destroy">> # <<>>
      <3>1. <<"look", "tellOnline", "seat", "destroy">> \in Lefts /\ <<"look", "tellOnline", "seat", "destroy">> # <<>>
        BY DEF Lefts
      <3> QED BY <1>14, <3>1 DEF Steps, Tells
    <2>2. removal'.left = <<"look", "tellOnline", "seat", "destroy">> /\ removal'.seen = removal.seen
      BY <1>1, <2>1, GoesTo
    <2>3. Counts => Fitting /\ TRUE
      BY <1>1, <1>14 DEF ToldInv, Removals
    <2>4. Counts => machine'.token = None
      BY <1>1, <1>3, <1>5, <2>1, <2>3, TellsTo
    <2>5. ~ Counts'
      BY <1>2, <2>4
    <2>6. OnlineInv'
      BY <1>1, <1>14, <2>1, <2>2 DEF OnlineInv
    <2> QED BY <2>5, <2>6 DEF ToldInv
  <1>15. CASE removal.left = <<"look", "tellOnline", "seat", "destroy">>
    <2>1. LooksOn(<<"tellOnline", "seat", "destroy">>) /\ <<"tellOnline", "seat", "destroy">> \in Lefts /\ <<"tellOnline", "seat", "destroy">> # <<>>
      BY <1>15 DEF Steps, Lefts
    <2>2. /\ row = None => removal' = NoRemoval
          /\ row # None =>
               /\ removal'.left = <<"tellOnline", "seat", "destroy">> /\ removal'.seen.status = row.status
               /\ <<"tellOnline", "seat", "destroy">> \in {<<"tell", "clear", "unseat">>, <<"tell", "clear">>} =>
                    (removal'.seen.reached <=> row.socket # None) /\ (removal'.seen.bound <=> row.bound)
      BY <1>1, <2>1, LooksTo
    <2>3. UNCHANGED <<row, seat>>
      BY <2>1 DEF LooksOn
    <2>4. Counts => Fitting /\ seat
      BY <1>1, <1>15 DEF ToldInv, Removals
    <2>5. OnlineInv'
      BY <1>1, <2>2, <2>3, NothingIs DEF OnlineInv
    <2>6. Fitting => row.status = "ONLINE"
      BY DEF Fitting
    <2> HIDE DEF Counts, Fitting
    <2>7. row = None => ~ Counts'
      BY <1>2, <1>5, <2>4
    <2>8. <<"tellOnline", "seat", "destroy">> \notin {<<>>} \union Removals \union
            {<<"clear", "unseat">>, <<"unseat">>, <<"clear">>, <<"seat", "destroy">>, <<"destroy">>}
      BY DEF Removals
    <2>9. ASSUME row # None, Counts'
          PROVE  /\ removal'.left = <<"tellOnline", "seat", "destroy">> /\ Fitting' /\ seat' /\ removal'.seen.status = "ONLINE"
                 /\ <<"tellOnline", "seat", "destroy">> \in {<<"tell", "clear", "unseat">>, <<"tell", "clear">>} => removal'.seen.reached
      BY <1>2, <1>3, <1>4, <2>2, <2>3, <2>4, <2>6, <2>9
    <2>10. ToldInv'
      BY <2>7, <2>8, <2>9 DEF ToldInv
    <2> QED BY <2>5, <2>10
  <1>16. CASE removal.left = <<"tellOnline", "seat", "destroy">>
    <2>1. /\ GoesOn(<<"seat", "destroy">>) /\ Tells((removal.seen.status = "ONLINE")) /\ UNCHANGED <<row, seat>>
          /\ <<"seat", "destroy">> \in Lefts /\ <<"seat", "destroy">> # <<>>
      <3>1. <<"seat", "destroy">> \in Lefts /\ <<"seat", "destroy">> # <<>>
        BY DEF Lefts
      <3> QED BY <1>16, <3>1 DEF Steps, Tells
    <2>2. removal'.left = <<"seat", "destroy">> /\ removal'.seen = removal.seen
      BY <1>1, <2>1, GoesTo
    <2>3. Counts => Fitting /\ (removal.seen.status = "ONLINE")
      BY <1>1, <1>16 DEF ToldInv, Removals
    <2>4. Counts => machine'.token = None
      BY <1>1, <1>3, <1>5, <2>1, <2>3, TellsTo
    <2>5. ~ Counts'
      BY <1>2, <2>4
    <2>6. OnlineInv'
      BY <1>1, <1>16, <2>1, <2>2 DEF OnlineInv
    <2> QED BY <2>5, <2>6 DEF ToldInv
  <1>17. CASE removal.left = <<"seat", "destroy">>
    <2>1. GoesOn(<<"destroy">>) /\ UNCHANGED <<row, machine, past>> /\ <<"destroy">> \in Lefts
      BY <1>17 DEF Steps, Lefts
    <2>2. removal'.left = <<"destroy">> /\ removal'.seen = removal.seen
      BY <1>1, <2>1, GoesTo
    <2>3. ~ Counts'
      BY <1>1, <1>2, <1>17 DEF ToldInv
    <2>6. OnlineInv'
      BY <1>1, <2>1, <2>2 DEF OnlineInv
    <2> QED BY <2>3, <2>6 DEF ToldInv
  <1>18. CASE removal.left = <<"destroy">>
    <2>1. GoesOn(<<>>) /\ row' = None /\ <<>> \in Lefts
      BY <1>18 DEF Steps, Lefts
    <2>2. removal'.left = <<>>
      BY <1>1, <2>1, GoesTo
    <2>3. ~ Counts'
      BY <1>1, <1>2, <1>18 DEF ToldInv
    <2>6. OnlineInv'
      BY <2>1 DEF OnlineInv
    <2> QED BY <2>3, <2>6 DEF ToldInv
  <1> QED BY <1>6, <1>7, <1>8, <1>9, <1>10, <1>11, <1>12, <1>13, <1>14, <1>15, <1>16, <1>17, <1>18 DEF Steps

LEMMA RemovedOfRemovalStep ==
  ASSUME RemovedInv, RemovalStep
  PROVE  ApartInv' /\ OnlineInv' /\ SignedInv' /\ ToldInv'
  <1>1. RangeInv /\ ApartInv /\ SignedInv
    BY DEF RemovedInv, PresenceInv, ReportInv
  <1>2. UNCHANGED <<live, reg>> /\ removal # NoRemoval /\ Steps /\ Registering' = Registering
    BY <1>1, StepsOf, NothingIs, RegisteringKept DEF RemovalStep
  <1>3. /\ machine'.key = machine.key /\ (past'.crossed => past.crossed)
        /\ machine'.token = None \/ (machine'.token = machine.token /\ (past'.crossed <=> past.crossed))
        /\ past'.blurred = past.blurred /\ past'.last = past.last
        /\ past'.crossed \in BOOLEAN /\ past.crossed \in BOOLEAN
    BY <1>1, RemovalFrame, PastOf DEF RangeInv
  <1>4. CASE machine'.token = None
    BY <1>1, <1>2, <1>4, NoTokenNoDuty DEF SignedInv
  <1>5. CASE machine'.token # None /\ past'.crossed
    BY <1>1, <1>2, <1>5 DEF ApartInv, OnlineInv, SignedInv, ToldInv, Counts
  <1>6. CASE machine'.token # None /\ ~ past'.crossed
    <2>1. machine'.token = machine.token /\ ~ past.crossed /\ past'.crossed = past.crossed
      BY <1>3, <1>6
    <2>2. OnlineInv' /\ ToldInv'
      BY <1>2, <1>3, <1>6, <2>1, RemovedOfStep
    <2>3. Registering' = {}
      BY <1>1, <1>2, <1>6, <2>1 DEF ApartInv
    <2> QED BY <1>1, <1>2, <2>2, <2>3 DEF ApartInv, SignedInv
  <1> QED BY <1>4, <1>5, <1>6

LEMMA RemovedOfFails ==
  ASSUME RemovedInv, Fails
  PROVE  ApartInv' /\ OnlineInv' /\ SignedInv' /\ ToldInv'
  <1>1. RangeInv /\ OnlineInv /\ SignedInv /\ ToldInv
    BY DEF RemovedInv, PresenceInv, ReportInv
  <1>2. CASE KeyFails
    <2>1. UNCHANGED <<row, seat, live, reg, removal, machine, past>> /\ Registering' = Registering
      BY <1>2, RegisteringKept DEF KeyFails
    <2> QED BY <2>1, RemovedFrame DEF KeepsBinding, KeepsToken
  <1>3. CASE SignInFails
    <2>1. machine'.token = None /\ reg' = reg
      BY <1>1, <1>3, SignInFailsTo DEF SignInFails
    <2> QED BY <1>1, <2>1, NoTokenNoDuty DEF SignedInv
  <1>4. CASE RemovalFails
    <2>1. /\ UNCHANGED <<row, seat, live, reg, off, reKey, machine>> /\ Registering' = Registering
          /\ removal # NoRemoval
      BY <1>4, RegisteringKept DEF RemovalFails
    <2>2. /\ removal' = NoRemoval /\ past'.blurred = past.blurred /\ past'.alone = past.alone
          /\ past'.last = past.last /\ (past'.crossed <=> past.crossed \/ removal.left \in Untelling)
      BY <1>1, <1>4, RemovalFailsTo DEF SameButCrossed
    <2>3. (Fitting' <=> Fitting) /\ (Counts' => Counts /\ removal.left \notin Untelling)
      BY <2>1, <2>2 DEF Fitting, Counts
    <2>4. ApartInv'
      BY <2>2 DEF ApartInv
    <2>5. OnlineInv'
      BY <1>1, <2>1, <2>2, NothingIs DEF OnlineInv
    <2>6. SignedInv'
      BY <1>1, <2>1, <2>2, <2>3 DEF SignedInv
    <2>7. removal.left \in Lefts
      BY <1>1 DEF RangeInv
    <2> HIDE DEF Counts, Fitting
    <2>8. Counts' => Fitting /\ seat
      BY <1>1, <2>3, <2>7 DEF ToldInv, Lefts, Removals, Untelling
    <2>9. ToldInv'
      BY <2>1, <2>2, <2>3, <2>8, NothingIs DEF ToldInv
    <2> QED BY <2>4, <2>5, <2>6, <2>9
  <1>5. ASSUME NEW s \in Sockets, RegisterFails(s)
        PROVE  ApartInv' /\ OnlineInv' /\ SignedInv' /\ ToldInv'
    <2>1. UNCHANGED <<row, seat, live, off, reKey, removal>>
      BY <1>5 DEF RegisterFails
    <2>2. /\ OnlyAt(s, reg, reg') /\ SameButCrossed(past, past') /\ reg'[s].at = "idle"
          /\ \/ machine'.token = None
             \/ machine'.token = machine.token /\ (past'.crossed <=> past.crossed)
      BY <1>1, <1>5, RegisterFailsTo
    <2>3. Registering' = Registering \ {s}
      BY <2>2, RegisteringLess
    <2>4. CASE machine'.token = None
      BY <1>1, <2>2, <2>4, NoTokenNoDuty DEF SignedInv, OnlyAt
    <2>5. CASE machine'.token = machine.token /\ (past'.crossed <=> past.crossed)
      <3>1. KeepsBinding /\ KeepsToken
        BY <2>1, <2>5 DEF KeepsBinding, KeepsToken
      <3>2. \A u \in Registering' : reg'[u] = reg[u] /\ (u \in past'.alone => u \in past.alone)
        BY <2>2, <2>3 DEF OnlyAt, Registering, SameButCrossed
      <3> QED BY <2>1, <2>2, <2>3, <3>1, <3>2, RemovedFrame DEF SameButCrossed
    <2> QED BY <2>2, <2>4, <2>5
  <1>6. ASSUME NEW s \in Sockets, DisconnectFails(s)
        PROVE  ApartInv' /\ OnlineInv' /\ SignedInv' /\ ToldInv'
    <2>1. UNCHANGED <<row, seat, live, reg, removal, machine>> /\ Registering' = Registering
      BY <1>6, RegisteringKept DEF DisconnectFails
    <2>2. /\ past'.blurred = past.blurred /\ past'.alone = past.alone /\ past'.last = past.last
          /\ past'.crossed = past.crossed
      BY <1>1, <1>6, DisconnectFailsTo
    <2> QED BY <2>1, <2>2, RemovedFrame DEF KeepsBinding, KeepsToken
  <1> QED BY <1>2, <1>3, <1>4, <1>5, <1>6 DEF Fails

LEMMA RemovedOfSockets ==
  ASSUME RemovedInv, NEW s \in Sockets,
         Connects(s) \/ Drops(s) \/ DisconnectReads(s) \/ DisconnectSaves(s)
  PROVE  ApartInv' /\ OnlineInv' /\ SignedInv' /\ ToldInv'
  <1>1. RangeInv /\ PathInv
    BY DEF RemovedInv, PresenceInv, ReportInv
  <1>2. UNCHANGED <<seat, reg, removal, machine>> /\ Registering' = Registering
    BY RegisteringKept DEF Connects, Drops, DisconnectReads, DisconnectSaves
  <1>3. CASE Connects(s)
    <2>1. UNCHANGED <<row, past>> /\ live' = {s} /\ off[s].at = "never"
      BY <1>3 DEF Connects
    <2>2. past.last # s
      BY <1>1, <2>1, SocketsIn DEF PathInv
    <2> QED BY <1>2, <2>1, <2>2, RemovedFrame DEF KeepsBinding, KeepsToken
  <1>4. CASE Drops(s)
    <2>1. UNCHANGED <<row, past>> /\ live' = live \ {s}
      BY <1>4 DEF Drops
    <2> QED BY <1>2, <2>1, RemovedFrame DEF KeepsBinding, KeepsToken
  <1>5. CASE DisconnectReads(s)
    <2>1. UNCHANGED <<row, live>>
      BY <1>5 DEF DisconnectReads
    <2>2. /\ (past'.blurred <=> past.blurred \/ ~ Alone) /\ past'.alone = {}
          /\ past'.last = past.last /\ past'.crossed = past.crossed
      BY <1>1, <1>5, ReadsTo DEF DisconnectReads, SameButAlone, RangeInv
    <2> QED BY <1>2, <2>1, <2>2, RemovedFrame DEF KeepsBinding, KeepsToken
  <1>6. CASE DisconnectSaves(s)
    <2>1. UNCHANGED <<live, past>>
      BY <1>6 DEF DisconnectSaves
    <2>2. KeepsBinding
      BY <1>1, <1>6, LeavesTo, RowOf DEF KeepsBinding, SameButPlace, DisconnectSaves, Writes
    <2> QED BY <1>2, <2>1, <2>2, RemovedFrame DEF KeepsToken
  <1> QED BY <1>3, <1>4, <1>5, <1>6

LEMMA RemovedStays == RemovedInv /\ [Next]_vars => RemovedInv'
  <1> SUFFICES ASSUME RemovedInv, [Next]_vars PROVE ApartInv' /\ OnlineInv' /\ SignedInv' /\ ToldInv'
    BY PresenceStays DEF RemovedInv
  <1>1. RangeInv /\ SignedInv
    BY DEF RemovedInv, PresenceInv, ReportInv
  <1>2. CASE Reopens
    <2>1. machine'.token = None /\ reg' = reg
      BY <1>1, <1>2, ReopensTo DEF Reopens
    <2> QED BY <1>1, <2>1, NoTokenNoDuty DEF SignedInv
  <1>3. CASE KeyReads
    <2>1. UNCHANGED <<row, seat, live, reg, removal, machine>> /\ Registering' = Registering
      BY <1>3, RegisteringKept DEF KeyReads
    <2>2. /\ (past'.blurred <=> past.blurred \/ ~ Alone) /\ past'.alone = {}
          /\ past'.last = past.last /\ past'.crossed = past.crossed
      BY <1>1, <1>3, ReadsTo DEF KeyReads, SameButAlone, RangeInv
    <2> QED BY <2>1, <2>2, RemovedFrame DEF KeepsBinding, KeepsToken
  <1>4. ASSUME NEW m \in Reports, ReportLands(m)
        PROVE  ApartInv' /\ OnlineInv' /\ SignedInv' /\ ToldInv'
    <2>1. UNCHANGED <<seat, live, reg, removal, machine>> /\ Registering' = Registering
      BY <1>4, RegisteringKept DEF ReportLands
    <2>2. KeepsBinding /\ SameButHeard(past, past')
      BY <1>1, <1>4, ReportsTo, RowOf DEF KeepsBinding, Accepts
    <2> QED BY <2>1, <2>2, RemovedFrame DEF KeepsToken, SameButHeard
  <1>5. CASE UNCHANGED session
    <2>1. Registering' = Registering
      BY <1>5, RegisteringKept DEF session
    <2> QED BY <1>5, <2>1, RemovedFrame DEF session, KeepsBinding, KeepsToken
  <1> QED BY <1>2, <1>3, <1>4, <1>5, Actions, RemovedOfSockets, RemovedOfReads, RemovedOfChecks, RemovedOfSaves,
          RemovedOfKeySaves, RemovedOfSignsIn, RemovedOfRemoves, RemovedOfRemovalStep, RemovedOfRestart,
          RemovedOfFails

\* A machine that is connected and holds a token has its seat: who unbinds it, unregisters it or sends it
\* back tells it, or its next registration does, wherever a rejected call stops them, unless a registration
\* or a login overlapped the removal, or unbindUser stopped between taking the seat and telling the machine
\* (binding.service.ts forceLogoutDevice, message-socket.service.ts register).
THEOREM RemovedStayTold == Spec => []RemovedAreTold
  <1>1. ASSUME RemovedInv PROVE RemovedAreTold
    BY <1>1, NothingIs DEF RemovedInv, ToldInv, Counts, Fitting, RemovedAreTold
  <1> QED BY <1>1, RemovedStarts, RemovedStays, PTL DEF Spec
================================================================================
