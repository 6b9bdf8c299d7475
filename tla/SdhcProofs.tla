----------------------------- MODULE SdhcProofs -----------------------------
(***************************************************************************)
(* The SD card driver for every number of blocks, calls and faults: when   *)
(* SDHC_Init reports success driver and card agree; a call that met a      *)
(* fault leaves a trace of it; one that met none moves exactly the blocks  *)
(* asked for; and with nothing lost or damaged no wait is in vain.         *)
(*                                                                         *)
(* The invariant has four parts, in the order of this module: SdInv (where *)
(* the driver is against what driver and card agree on), Fields (ranges),  *)
(* Transfers (which blocks are in the buffer, in the port and on the disk) *)
(* and Clean (what holds as long as no fault happened).                    *)
(***************************************************************************)
EXTENDS Sdhc, TLAPS

-----------------------------------------------------------------------------
(* What a command does.                                                    *)

Cmds == {0, 55, 41, 2, 3, 7, 9, 13, 16, 51, 6, 17, 18, 24, 25}
CardFields == {"kind", "ver", "state", "app", "rca", "width", "blklen"}

\* The card obeyed and answered; or nothing the driver takes for an answer came, and
\* that is an error.
Answered(o, c, arg) ==
  /\ Obeys(c, arg) /\ o.answered /\ o.cost = 0 /\ o.card \in After(c, arg)
  /\ (o.ok <=> ~host.err \/ c \in Forgiven)
  /\ (o.err <=> host.err /\ c \in Forgiven)
CutShort(k, c) == [k EXCEPT !.state = IF c \in {6, 17, 51} /\ @ = "data" THEN "tran" ELSE @]
Missed(o, c, arg) ==
  /\ ~o.answered /\ o.cost \in {0, 1}
  /\ IF o.cost = 0 THEN ~Obeys(c, arg) /\ o.card = PlainCard(card) ELSE faults # 0
  /\ c # 0 => (o.ok <=> c \in Forgiven) /\ (o.err <=> c \in Forgiven)
  /\ \/ o.card \in {card, PlainCard(card)}
     \/ Obeys(c, arg) /\ \E k \in After(c, arg) : o.card = CutShort(k, c)

LEMMA OutcomeCases ==
  ASSUME NEW c \in Cmds, NEW arg, NEW o \in Outcomes(c, arg)
  PROVE  /\ DOMAIN o = {"card", "answered", "cost", "ok", "err"}
         /\ Answered(o, c, arg) \/ Missed(o, c, arg)
  <1> USE DEF Answered, Missed, CutShort
  <1> DEFINE ok == Obeys(c, arg)
             after == IF ok THEN After(c, arg) ELSE {PlainCard(card)}
             Cut(k) == [k EXCEPT !.state = IF c \in {6, 17, 51} /\ @ = "data" THEN "tran" ELSE @]
             cut == {Cut(k) : k \in after}
  <1>1. CASE \E k \in after : o = Outcome(k, ok, ~ok /\ c # 0, 0, c)
    <2>1. PICK k \in after : o = Outcome(k, ok, ~ok /\ c # 0, 0, c)
      BY <1>1
    <2>2. CASE ok
      BY <2>1, <2>2 DEF Outcome
    <2>3. CASE ~ok
      BY <2>1, <2>3 DEF Outcome
    <2> QED BY <2>2, <2>3
  <1>2. CASE faults # 0 /\ o = Outcome(card, FALSE, c # 0, 1, c)
    <2>1. /\ o.card = card /\ ~o.answered /\ o.cost = 1
          /\ c # 0 => (o.ok <=> c \in Forgiven) /\ (o.err <=> c \in Forgiven)
          /\ DOMAIN o = {"card", "answered", "cost", "ok", "err"}
      BY <1>2 DEF Outcome
    <2>2. o.cost # 0
      BY <2>1
    <2> QED BY <1>2, <2>1, <2>2
  <1>3. CASE faults # 0 /\ ok /\ \E k \in cut : o = Outcome(k, FALSE, TRUE, 1, c)
    <2>1. PICK k \in after : o = Outcome(Cut(k), FALSE, TRUE, 1, c)
      BY <1>3
    <2>2. k \in After(c, arg)
      BY <1>3
    <2> HIDE DEF Cut, ok, after
    <2>3. /\ o.card = Cut(k) /\ ~o.answered /\ o.cost = 1
          /\ (o.ok <=> c \in Forgiven) /\ (o.err <=> c \in Forgiven)
          /\ DOMAIN o = {"card", "answered", "cost", "ok", "err"}
      BY <2>1 DEF Outcome
    <2>4. o.cost # 0
      BY <2>3
    <2> QED BY <1>3, <2>2, <2>3, <2>4 DEF Cut, ok
  <1>4. \/ o \in {Outcome(k, ok, ~ok /\ c # 0, 0, c) : k \in after}
        \/ faults # 0 /\ o = Outcome(card, FALSE, c # 0, 1, c)
        \/ faults # 0 /\ ok /\ o \in {Outcome(k, FALSE, TRUE, 1, c) : k \in cut}
    <2> HIDE DEF after, cut, ok
    <2>1. o \in {Outcome(k, ok, ~ok /\ c # 0, 0, c) : k \in after}
            \cup (IF faults = 0 THEN {} ELSE {Outcome(card, FALSE, c # 0, 1, c)})
            \cup (IF faults > 0 /\ ok /\ c \notin NoCheck THEN {Outcome(k, FALSE, TRUE, 1, c) : k \in cut}
                   ELSE {})
      BY DEF Outcomes, after, cut, ok
    <2>2. faults > 0 => faults # 0
      OBVIOUS
    <2> QED BY <2>1, <2>2
  <1> HIDE DEF after, cut, ok
  <1> QED BY <1>1, <1>2, <1>3, <1>4

\* The commands one by one.
LEMMA ObeysWhen ==
  ASSUME NEW arg
  PROVE  /\ Obeys(55, arg) <=> arg = card.rca /\ card.state \in {"idle", "stby", "tran"}
         /\ Obeys(41, arg) <=> card.app /\ card.state = "idle"
         /\ Obeys(2, arg) <=> card.state = "ready"
         /\ Obeys(3, arg) <=> card.state = "ident"
         /\ Obeys(7, arg) <=> card.state = "stby" /\ arg = card.rca
         /\ Obeys(9, arg) <=> card.state = "stby" /\ arg = card.rca
         /\ Obeys(16, arg) <=> card.state = "tran"
         /\ Obeys(51, arg) <=> card.state = "tran" /\ card.app
         /\ Obeys(6, arg) <=> card.state = "tran" /\ (card.app \/ card.ver > 0)
         /\ \A c \in {17, 18, 24, 25} : Obeys(c, arg) => card.state = "tran"
  <1>1. Obeys(55, arg) <=> arg = card.rca /\ card.state \in {"idle", "stby", "tran"}
    BY DEF Obeys
  <1>2. Obeys(41, arg) <=> card.app /\ card.state = "idle"
    BY DEF Obeys
  <1>3. (Obeys(2, arg) <=> card.state = "ready") /\ (Obeys(3, arg) <=> card.state = "ident")
    BY DEF Obeys
  <1>4. Obeys(7, arg) <=> card.state = "stby" /\ arg = card.rca
    BY DEF Obeys
  <1>5. Obeys(9, arg) <=> card.state = "stby" /\ arg = card.rca
    BY DEF Obeys
  <1>6. Obeys(16, arg) <=> card.state = "tran"
    BY DEF Obeys
  <1>7. Obeys(51, arg) <=> card.state = "tran" /\ card.app
    BY DEF Obeys
  <1>8. Obeys(6, arg) <=> card.state = "tran" /\ (card.app \/ card.ver > 0)
    BY DEF Obeys
  <1>9. /\ Obeys(17, arg) => card.state = "tran"
        /\ Obeys(18, arg) => card.state = "tran"
        /\ Obeys(24, arg) => card.state = "tran"
        /\ Obeys(25, arg) => card.state = "tran"
    BY DEF Obeys
  <1> QED BY <1>1, <1>2, <1>3, <1>4, <1>5, <1>6, <1>7, <1>8, <1>9

LEMMA AfterIs ==
  ASSUME NEW arg
  PROVE  /\ After(55, arg) = {[PlainCard(card) EXCEPT !.app = TRUE]}
         /\ After(41, arg) = {PlainCard(card), [PlainCard(card) EXCEPT !.state = "ready"]}
         /\ After(2, arg) = {[PlainCard(card) EXCEPT !.state = "ident"]}
         /\ After(3, arg) = {[PlainCard(card) EXCEPT !.state = "stby", !.rca = Rca]}
         /\ After(7, arg) = {[PlainCard(card) EXCEPT !.state = "tran"]}
         /\ After(9, arg) = {PlainCard(card)}
         /\ After(13, arg) = {PlainCard(card)}
         /\ After(16, arg) = {[PlainCard(card) EXCEPT !.blklen = arg]}
         /\ After(51, arg) = {[PlainCard(card) EXCEPT !.state = "data"]}
         /\ card.app => After(6, arg) = {[PlainCard(card) EXCEPT !.width = arg]}
         /\ ~card.app => After(6, arg) = {[PlainCard(card) EXCEPT !.state = "data"]}
  <1>1. After(55, arg) = {[PlainCard(card) EXCEPT !.app = TRUE]}
    BY DEF After
  <1>2. After(41, arg) = {PlainCard(card), [PlainCard(card) EXCEPT !.state = "ready"]}
    BY DEF After
  <1>3. After(2, arg) = {[PlainCard(card) EXCEPT !.state = "ident"]}
    BY DEF After
  <1>4. After(3, arg) = {[PlainCard(card) EXCEPT !.state = "stby", !.rca = Rca]}
    BY DEF After
  <1>5. After(7, arg) = {[PlainCard(card) EXCEPT !.state = "tran"]}
    BY DEF After
  <1>6. After(9, arg) = {PlainCard(card)}
    BY DEF After
  <1>7. After(13, arg) = {PlainCard(card)}
    BY DEF After
  <1>8. After(16, arg) = {[PlainCard(card) EXCEPT !.blklen = arg]}
    BY DEF After
  <1>9. After(51, arg) = {[PlainCard(card) EXCEPT !.state = "data"]}
    BY DEF After
  <1>10. card.app => After(6, arg) = {[PlainCard(card) EXCEPT !.width = arg]}
    BY DEF After
  <1>11. ~card.app => After(6, arg) = {[PlainCard(card) EXCEPT !.state = "data"]}
    BY DEF After
  <1> QED BY <1>1, <1>2, <1>3, <1>4, <1>5, <1>6, <1>7, <1>8, <1>9, <1>10, <1>11

\* The commands of a call.
LEMMA AfterCall ==
  ASSUME NEW c \in {17, 18, 24, 25}, NEW arg, NEW k \in After(c, arg)
  PROVE  k = [PlainCard(card) EXCEPT !.state = IF c \in {17, 18} THEN "data" ELSE "rcv"]
  <1>1. /\ After(17, arg) = {[PlainCard(card) EXCEPT !.state = "data"]}
        /\ After(18, arg) = {[PlainCard(card) EXCEPT !.state = "data"]}
    BY DEF After
  <1>2. /\ After(24, arg) = {[PlainCard(card) EXCEPT !.state = "rcv"]}
        /\ After(25, arg) = {[PlainCard(card) EXCEPT !.state = "rcv"]}
    BY DEF After
  <1> QED BY <1>1, <1>2

\* What a command leaves in the card.
LEMMA AfterChanges ==
  ASSUME NEW c \in Cmds \ {0}, NEW arg, Obeys(c, arg), NEW k \in After(c, arg),
         DOMAIN card = CardFields
  PROVE  /\ DOMAIN k = CardFields /\ k.kind = card.kind
         /\ c # 3 => k.rca = card.rca
         /\ c # 6 => k.width = card.width
         /\ card.state \notin {"data", "rcv"} \/ (c = 13 /\ k.state = card.state)
         /\ c \in {55, 13, 16} => k.state = card.state
         /\ c = 55 => k.app
         /\ c = 16 => k.blklen = arg /\ ~k.app /\ card.state = "tran"
         /\ c \in {51, 6} /\ (c = 6 => ~card.app) => k.state = "data"
         /\ c = 6 /\ card.app => k.width = arg
         /\ c = 7 => card.rca = arg
  <1> DEFINE P == PlainCard(card)
  <1>p. /\ DOMAIN P = CardFields /\ P.kind = card.kind /\ P.rca = card.rca /\ P.width = card.width
        /\ P.state = card.state /\ ~P.app
    BY DEF PlainCard, CardFields
  <1> HIDE DEF P
  <1>1. CASE c = 55
    <2>1. k \in After(55, arg) /\ Obeys(55, arg)
      BY <1>1
    <2> QED BY <1>1, <1>p, <2>1, AfterIs, ObeysWhen DEF P, CardFields
  <1>2. CASE c = 41
    <2>1. k \in After(41, arg) /\ Obeys(41, arg)
      BY <1>2
    <2> QED BY <1>2, <1>p, <2>1, AfterIs, ObeysWhen DEF P, CardFields
  <1>3. CASE c = 2
    <2>1. k \in After(2, arg) /\ Obeys(2, arg)
      BY <1>3
    <2> QED BY <1>3, <1>p, <2>1, AfterIs, ObeysWhen DEF P, CardFields
  <1>4. CASE c = 3
    <2>1. k \in After(3, arg) /\ Obeys(3, arg)
      BY <1>4
    <2>2. k = [P EXCEPT !.state = "stby", !.rca = Rca]
      BY <2>1, AfterIs DEF P
    <2>3. /\ DOMAIN k = CardFields /\ k.kind = P.kind /\ k.width = P.width
      BY <1>p, <2>2 DEF CardFields
    <2>4. card.state = "ident"
      BY <2>1, ObeysWhen
    <2> QED BY <1>4, <1>p, <2>3, <2>4
  <1>5. CASE c = 7
    <2>1. k \in After(7, arg) /\ Obeys(7, arg)
      BY <1>5
    <2> QED BY <1>5, <1>p, <2>1, AfterIs, ObeysWhen DEF P, CardFields
  <1>6. CASE c = 9
    <2>1. k \in After(9, arg) /\ Obeys(9, arg)
      BY <1>6
    <2> QED BY <1>6, <1>p, <2>1, AfterIs, ObeysWhen DEF P, CardFields
  <1>7. CASE c = 13
    <2>1. k \in After(13, arg) /\ Obeys(13, arg)
      BY <1>7
    <2> QED BY <1>7, <1>p, <2>1, AfterIs, ObeysWhen DEF P, CardFields
  <1>8. CASE c = 16
    <2>1. k \in After(16, arg) /\ Obeys(16, arg)
      BY <1>8
    <2> QED BY <1>8, <1>p, <2>1, AfterIs, ObeysWhen DEF P, CardFields
  <1>9. CASE c = 51
    <2>1. k \in After(51, arg) /\ Obeys(51, arg)
      BY <1>9
    <2> QED BY <1>9, <1>p, <2>1, AfterIs, ObeysWhen DEF P, CardFields
  <1>10. CASE c = 6
    <2>1. k \in After(6, arg) /\ Obeys(6, arg)
      BY <1>10
    <2> QED BY <1>10, <1>p, <2>1, AfterIs, ObeysWhen DEF P, CardFields
  <1>11. CASE c \in {17, 18, 24, 25}
    <2>1. k = [P EXCEPT !.state = IF c \in {17, 18} THEN "data" ELSE "rcv"]
      BY <1>11, AfterCall DEF P
    <2>2. card.state = "tran"
      BY <1>11, ObeysWhen
    <2>3. DOMAIN k = CardFields /\ k.kind = P.kind /\ k.rca = P.rca /\ k.width = P.width
      BY <1>p, <2>1 DEF CardFields
    <2> QED BY <1>11, <1>p, <2>2, <2>3
  <1> QED BY <1>1, <1>2, <1>3, <1>4, <1>5, <1>6, <1>7, <1>8, <1>9, <1>10, <1>11 DEF Cmds

\* What no outcome of a command changes.
LEMMA CardChanges ==
  ASSUME NEW c \in Cmds \ {0}, NEW arg, NEW o \in Outcomes(c, arg), DOMAIN card = CardFields
  PROVE  /\ DOMAIN o.card = CardFields /\ o.card.kind = card.kind
         /\ c # 3 => o.card.rca = card.rca
         /\ c # 6 => o.card.width = card.width
         /\ card.state = "data" => o.card.state = "data"
  <1> DEFINE Same(k) == /\ DOMAIN k = CardFields /\ k.kind = card.kind
                        /\ c # 3 => k.rca = card.rca
                        /\ c # 6 => k.width = card.width
                        /\ card.state = "data" => k.state = "data"
             Cut(k) == [k EXCEPT !.state = IF c \in {6, 17, 51} /\ @ = "data" THEN "tran" ELSE @]
  <1>1. Same(card) /\ Same(PlainCard(card))
    BY DEF PlainCard, CardFields
  <1>2. ASSUME Obeys(c, arg), NEW k \in After(c, arg)
        PROVE  Same(k) /\ Same(Cut(k))
    <2>1. Same(k) /\ (card.state # "data" \/ c = 13)
      BY <1>2, AfterChanges
    <2> HIDE DEF Same
    <2>2. DOMAIN k = CardFields
      BY <2>1 DEF Same
    <2>3. DOMAIN Cut(k) = CardFields /\ \A f \in CardFields \ {"state"} : Cut(k)[f] = k[f]
      BY <2>2 DEF CardFields
    <2>4. c = 13 => Cut(k).state = k.state
      BY <2>2 DEF CardFields
    <2> HIDE DEF Cut
    <2>5. Cut(k).kind = k.kind /\ Cut(k).rca = k.rca /\ Cut(k).width = k.width
      BY <2>3 DEF CardFields
    <2> QED BY <2>1, <2>3, <2>4, <2>5 DEF Same
  <1>3. Same(o.card)
    <2>1. \/ \E k \in After(c, arg) : Obeys(c, arg) /\ o.card \in {k, Cut(k)}
          \/ o.card \in {card, PlainCard(card)}
      <3>1. \/ Obeys(c, arg) /\ o.card \in After(c, arg)
            \/ Obeys(c, arg) /\ \E k \in After(c, arg) : o.card = Cut(k)
            \/ o.card \in {card, PlainCard(card)}
        <4>1. c \in Cmds
          OBVIOUS
        <4>2. Answered(o, c, arg) \/ Missed(o, c, arg)
          BY <4>1, OutcomeCases
        <4>3. CASE Answered(o, c, arg)
          BY <4>3 DEF Answered
        <4>4. CASE Missed(o, c, arg)
          BY <4>4 DEF Missed, CutShort
        <4> QED BY <4>2, <4>3, <4>4
      <3> HIDE DEF Cut
      <3> QED BY <3>1
    <2> HIDE DEF Same, Cut
    <2> QED BY <1>1, <1>2, <2>1
  <1> QED BY <1>3

-----------------------------------------------------------------------------
(* The invariant.                                                          *)

DrvFields == {"pc", "op", "tries", "ocr", "mode", "rca", "ver", "start", "blocks", "remain", "buf",
              "ret"}
Shape ==
  /\ DOMAIN drv = DrvFields
  /\ DOMAIN host = {"width", "err", "ready", "tc", "port", "run"}
  /\ DOMAIN card = CardFields
  /\ DOMAIN hist = {"calls", "hurt", "late"}

\* SDHC_Init, command by command.
First == {"identify", "cmd55", "cmd41"}
Addressed == {"scr16", "scr55", "scr51", "version", "speed16", "speed6", "width55", "width6"}
Named == {"cmd2", "cmd3", "cmd9", "cmd7"} \cup Addressed
Last == {"cmd16", "ready"}
Ends == {"failed", "assert", "returned"}

InitOps == {"init", "scr", "switch"}

\* Which transfer is made where.
OpFits ==
  /\ drv.pc \in First \cup Named \cup Last => drv.op \in InitOps
  /\ drv.pc = "cmd13" => drv.op \in {"init", "read", "write"}
  /\ drv.pc \in {"command", "returned"} => drv.op \in {"read", "write"}
  /\ drv.pc \in {"wait", "move", "complete"} => drv.op \in {"scr", "switch", "read", "write"}
  /\ drv.pc \in First \cup Named \cup Last \cup Ends
             \cup {"cmd13", "command", "wait", "move", "complete"}

\* A fault met by a call that still goes on, or succeeded, is in the error bit.
Pending ==
  (/\ hist.hurt /\ drv.op \in {"read", "write"}
   /\ \/ drv.pc \in {"cmd13", "command", "wait", "move", "complete"}
      \/ drv.pc = "returned" /\ drv.ret \in {0, 1})
    => host.err

RegisterRuns == [dir : {"none", "scr", "switch"}, at : Int, left : 0..1, multi : BOOLEAN]

\* While SDHC_Init runs a block under way is the register's, and the card is in
\* the data state until it came.
Link ==
  /\ host.run \in RegisterRuns
  /\ host.run.left > 0 => card.state = "data"

\* No block is under way but between a data command and the end of its wait; after
\* SCR, until the next command that the card obeys.
Quiet ==
  /\ \/ drv.pc \in First \cup (Named \ {"version", "speed16"})
     \/ drv.pc = "cmd13" \/ drv.pc \in Last
     \/ drv.pc \in {"move", "complete"} /\ drv.op = "switch"
     => host.run.left = 0
  /\ drv.pc = "wait" /\ drv.op = "switch" =>
       \/ host.run.left = 0
       \/ host.run.dir = "switch" /\ host.port = <<>> /\ ~host.ready

\* What driver and card agree on, as SDHC_Init gets ahead.
Agreed ==
  /\ drv.pc \notin First \cup Ends => drv.mode = card.kind
  /\ drv.pc \notin First \cup Ends \cup {"cmd2", "cmd3", "cmd9", "cmd7"} => card.rca = drv.rca
  /\ drv.pc \in Last \cup {"cmd13"} => card.width = host.width
  /\ drv.pc = "speed6" => ~card.app
  /\ drv.pc = "width6" => host.err \/ card.app

SdInv ==
  /\ Shape /\ OpFits /\ Pending
  /\ drv.op \in InitOps => Link /\ Quiet /\ Agreed
  /\ InitMeansReady

-----------------------------------------------------------------------------
(* The steps of the driver.                                                *)

\* What is left as it was when a command is sent.
LEMMA Issued ==
  ASSUME Shape, NEW c \in Cmds \ {0}, NEW arg, NEW o \in Outcomes(c, arg), Issue(o, c)
  PROVE  /\ DOMAIN host' = DOMAIN host /\ DOMAIN card' = CardFields /\ DOMAIN hist' = DOMAIN hist
         /\ host'.run = host.run /\ host'.port = host.port /\ host'.ready = host.ready
         /\ host'.width = host.width /\ host'.err = o.err /\ card' = o.card
         /\ (hist'.hurt <=> hist.hurt \/ o.cost = 1)
         /\ card'.kind = card.kind
         /\ c # 3 => card'.rca = card.rca
         /\ c # 6 => card'.width = card.width
         /\ card.state = "data" => card'.state = "data"
         /\ c \notin Forgiven /\ o.ok =>
              ~host.err /\ ~o.err /\ o.cost = 0 /\ Obeys(c, arg) /\ card' \in After(c, arg)
         /\ c = 55 /\ ~o.err => Obeys(c, arg) /\ card' \in After(c, arg)
  <1>1. DOMAIN card = CardFields
    BY DEF Shape
  <1>2. card' = o.card
    BY DEF Issue
  <1>3. /\ DOMAIN host' = DOMAIN host /\ host'.run = host.run /\ host'.port = host.port
        /\ host'.ready = host.ready /\ host'.width = host.width /\ host'.err = o.err
    BY DEF Shape, Issue
  <1>4. DOMAIN hist' = DOMAIN hist /\ (hist'.hurt <=> hist.hurt \/ o.cost = 1)
    BY DEF Shape, Issue
  <1>5. Answered(o, c, arg) \/ Missed(o, c, arg)
    BY OutcomeCases
  <1>6. c \notin Forgiven /\ o.ok =>
          ~host.err /\ ~o.err /\ o.cost = 0 /\ Obeys(c, arg) /\ o.card \in After(c, arg)
    BY <1>5 DEF Answered, Missed
  <1>7. c = 55 /\ ~o.err => Obeys(c, arg) /\ o.card \in After(c, arg)
    BY <1>5 DEF Answered, Missed, Forgiven
  <1>8. /\ DOMAIN o.card = CardFields /\ o.card.kind = card.kind
        /\ c # 3 => o.card.rca = card.rca
        /\ c # 6 => o.card.width = card.width
        /\ card.state = "data" => o.card.state = "data"
    BY <1>1, CardChanges
  <1> QED BY <1>2, <1>3, <1>4, <1>6, <1>7, <1>8

LEMMA Sent ==
  ASSUME Shape, NEW c \in Cmds \ {0}, NEW arg, NEW yes, NEW no, Send(c, arg, yes, no)
  PROVE  /\ Shape' /\ drv'.pc \in {yes, no} /\ drv'.op = drv.op /\ drv'.mode = drv.mode
         /\ drv'.rca = drv.rca
         /\ host'.run = host.run /\ host'.port = host.port /\ host'.ready = host.ready
         /\ host'.width = host.width /\ card'.kind = card.kind
         /\ c # 3 => card'.rca = card.rca
         /\ c # 6 => card'.width = card.width
         /\ card.state = "data" => card'.state = "data"
         /\ c \notin Forgiven /\ drv'.pc # no =>
              ~host'.err /\ Obeys(c, arg) /\ card' \in After(c, arg)
         /\ c = 55 /\ ~host'.err => Obeys(c, arg) /\ card' \in After(c, arg)
         /\ Link => Link'
  <1>1. PICK o \in Outcomes(c, arg) :
          Issue(o, c) /\ drv' = [drv EXCEPT !.pc = IF o.ok THEN yes ELSE no]
    BY DEF Send
  <1>2. /\ DOMAIN drv' = DOMAIN drv /\ drv'.pc = (IF o.ok THEN yes ELSE no) /\ drv'.op = drv.op
        /\ drv'.mode = drv.mode /\ drv'.rca = drv.rca
    BY <1>1 DEF Shape, DrvFields
  <1>3. Shape'
    BY <1>1, <1>2, Issued DEF Shape
  <1>4. Link => Link'
    BY <1>1, Issued DEF Link, RegisterRuns
  <1> QED BY <1>1, <1>2, <1>3, <1>4, Issued

\* Commands whose result the driver does not need, or whose answer brings the two
\* ends one agreement further.
LEMMA Cmd55Keeps == SdInv /\ Cmd55 => SdInv'
  <1> SUFFICES ASSUME SdInv, Cmd55 PROVE SdInv'
    OBVIOUS
  <1>1. drv.pc = "cmd55" /\ drv.op \in InitOps /\ Shape /\ Link
    BY DEF Cmd55, SdInv, OpFits, First, Addressed, Named, Last
  <1>2. Send(55, 0, "cmd41", "cmd41")
    BY DEF Cmd55
  <1>3. 55 \in Cmds \ {0}
    BY DEF Cmds
  <1> HIDE DEF Shape, Link
  <1> QED BY <1>1, <1>2, <1>3, Sent
    DEF SdInv, OpFits, Pending, Quiet, Agreed, InitMeansReady, First, Addressed, Named, Last,
        Ends, InitOps, Forgiven

LEMMA Cmd2Keeps == SdInv /\ Cmd2 => SdInv'
  <1> SUFFICES ASSUME SdInv, Cmd2 PROVE SdInv'
    OBVIOUS
  <1>1. drv.pc = "cmd2" /\ drv.op \in InitOps /\ Shape /\ Link
    BY DEF Cmd2, SdInv, OpFits, First, Addressed, Named, Last
  <1>2. Send(2, 0, "cmd3", "cmd3")
    BY DEF Cmd2
  <1>3. 2 \in Cmds \ {0}
    BY DEF Cmds
  <1> HIDE DEF Shape, Link
  <1> QED BY <1>1, <1>2, <1>3, Sent
    DEF SdInv, OpFits, Pending, Quiet, Agreed, InitMeansReady, First, Addressed, Named, Last,
        Ends, InitOps, Forgiven

LEMMA Cmd9Keeps == SdInv /\ Cmd9 => SdInv'
  <1> SUFFICES ASSUME SdInv, Cmd9 PROVE SdInv'
    OBVIOUS
  <1>1. drv.pc = "cmd9" /\ drv.op \in InitOps /\ Shape /\ Link
    BY DEF Cmd9, SdInv, OpFits, First, Addressed, Named, Last
  <1>2. Send(9, drv.rca, "cmd7", "cmd7")
    BY DEF Cmd9
  <1>3. 9 \in Cmds \ {0}
    BY DEF Cmds
  <1> HIDE DEF Shape, Link
  <1> QED BY <1>1, <1>2, <1>3, Sent
    DEF SdInv, OpFits, Pending, Quiet, Agreed, InitMeansReady, First, Addressed, Named, Last,
        Ends, InitOps, Forgiven

LEMMA Cmd7Keeps == SdInv /\ Cmd7 => SdInv'
  <1> SUFFICES ASSUME SdInv, Cmd7 PROVE SdInv'
    OBVIOUS
  <1>1. drv.pc = "cmd7" /\ drv.op \in InitOps /\ Shape /\ Link
    BY DEF Cmd7, SdInv, OpFits, First, Addressed, Named, Last
  <1>2. Send(7, drv.rca, "scr16", "failed")
    BY DEF Cmd7
  <1>3. 7 \in Cmds \ {0}
    BY DEF Cmds
  <1> HIDE DEF Shape, Link
  <1>4. drv'.pc # "failed" => card'.rca = drv'.rca
    BY <1>1, <1>2, <1>3, Sent, ObeysWhen DEF Forgiven
  <1> QED BY <1>1, <1>2, <1>3, Sent, <1>4
    DEF SdInv, OpFits, Pending, Quiet, Agreed, InitMeansReady, First, Addressed, Named, Last,
        Ends, InitOps, Forgiven

LEMMA Scr16Keeps == SdInv /\ Scr16 => SdInv'
  <1> SUFFICES ASSUME SdInv, Scr16 PROVE SdInv'
    OBVIOUS
  <1>1. drv.pc = "scr16" /\ drv.op \in InitOps /\ Shape /\ Link
    BY DEF Scr16, SdInv, OpFits, First, Addressed, Named, Last
  <1>2. Send(16, 8, "scr55", "version")
    BY DEF Scr16
  <1>3. 16 \in Cmds \ {0}
    BY DEF Cmds
  <1> HIDE DEF Shape, Link
  <1> QED BY <1>1, <1>2, <1>3, Sent
    DEF SdInv, OpFits, Pending, Quiet, Agreed, InitMeansReady, First, Addressed, Named, Last,
        Ends, InitOps, Forgiven

LEMMA Scr55Keeps == SdInv /\ Scr55 => SdInv'
  <1> SUFFICES ASSUME SdInv, Scr55 PROVE SdInv'
    OBVIOUS
  <1>1. drv.pc = "scr55" /\ drv.op \in InitOps /\ Shape /\ Link
    BY DEF Scr55, SdInv, OpFits, First, Addressed, Named, Last
  <1>2. Send(55, drv.rca, "scr51", "version")
    BY DEF Scr55
  <1>3. 55 \in Cmds \ {0}
    BY DEF Cmds
  <1> HIDE DEF Shape, Link
  <1> QED BY <1>1, <1>2, <1>3, Sent
    DEF SdInv, OpFits, Pending, Quiet, Agreed, InitMeansReady, First, Addressed, Named, Last,
        Ends, InitOps, Forgiven

LEMMA Speed16Keeps == SdInv /\ Speed16 => SdInv'
  <1> SUFFICES ASSUME SdInv, Speed16 PROVE SdInv'
    OBVIOUS
  <1>1. drv.pc = "speed16" /\ drv.op \in InitOps /\ Shape /\ Link
    BY DEF Speed16, SdInv, OpFits, First, Addressed, Named, Last
  <1>2. Send(16, 64, "speed6", "failed")
    BY DEF Speed16
  <1>3. 16 \in Cmds \ {0}
    BY DEF Cmds
  <1> HIDE DEF Shape, Link
  <1>4. drv'.pc # "failed" => host'.run.left = 0 /\ ~card'.app
    <2>1. ASSUME drv'.pc # "failed"
          PROVE  Obeys(16, 64) /\ card' \in After(16, 64) /\ host'.run = host.run
      BY <1>1, <1>2, <1>3, <2>1, Sent DEF Forgiven
    <2>2. ASSUME drv'.pc # "failed" PROVE card.state = "tran" /\ ~card'.app
      BY <1>1, <1>3, <2>1, <2>2, AfterChanges DEF Shape
    <2> QED BY <1>1, <2>1, <2>2 DEF Link, RegisterRuns
  <1> QED BY <1>1, <1>2, <1>3, Sent, <1>4
    DEF SdInv, OpFits, Pending, Quiet, Agreed, InitMeansReady, First, Addressed, Named, Last,
        Ends, InitOps, Forgiven

LEMMA Width55Keeps == SdInv /\ Width55 => SdInv'
  <1> SUFFICES ASSUME SdInv, Width55 PROVE SdInv'
    OBVIOUS
  <1>1. drv.pc = "width55" /\ drv.op \in InitOps /\ Shape /\ Link
    BY DEF Width55, SdInv, OpFits, First, Addressed, Named, Last
  <1>2. Send(55, drv.rca, "width6", "width6")
    BY DEF Width55
  <1>3. 55 \in Cmds \ {0}
    BY DEF Cmds
  <1> HIDE DEF Shape, Link
  <1>4. host'.err \/ card'.app
    BY <1>1, <1>2, <1>3, Sent, AfterChanges DEF Shape
  <1> QED BY <1>1, <1>2, <1>3, Sent, <1>4
    DEF SdInv, OpFits, Pending, Quiet, Agreed, InitMeansReady, First, Addressed, Named, Last,
        Ends, InitOps, Forgiven

LEMMA Cmd16Keeps == SdInv /\ Cmd16 => SdInv'
  <1> SUFFICES ASSUME SdInv, Cmd16 PROVE SdInv'
    OBVIOUS
  <1>1. drv.pc = "cmd16" /\ drv.op \in InitOps /\ Shape /\ Link
    BY DEF Cmd16, SdInv, OpFits, First, Addressed, Named, Last
  <1>2. Send(16, BlockSize, "ready", "failed")
    BY DEF Cmd16
  <1>3. 16 \in Cmds \ {0}
    BY DEF Cmds
  <1> HIDE DEF Shape, Link
  <1>4. drv'.pc # "failed" =>
          card'.blklen = BlockSize /\ card'.state = "tran" /\ ~host'.err
    <2>1. ASSUME drv'.pc # "failed"
          PROVE  Obeys(16, BlockSize) /\ card' \in After(16, BlockSize) /\ ~host'.err
      BY <1>1, <1>2, <1>3, <2>1, Sent DEF Forgiven
    <2> QED BY <1>1, <1>3, <2>1, AfterChanges DEF Shape
  <1> QED BY <1>1, <1>2, <1>3, Sent, <1>4
    DEF SdInv, OpFits, Pending, Quiet, Agreed, InitMeansReady, First, Addressed, Named, Last,
        Ends, InitOps, Forgiven

LEMMA IdentifyKeeps == SdInv /\ Identify => SdInv'
  <1> SUFFICES ASSUME SdInv, Identify PROVE SdInv'
    OBVIOUS
  <1>1. drv.pc = "identify" /\ drv.op \in InitOps /\ Shape /\ Link
    BY DEF Identify, SdInv, OpFits, First, Addressed, Named, Last
  <1>2. PICK o \in Outcomes(0, 0) : card' = o.card
    BY DEF Identify
  <1>3. DOMAIN card' = CardFields
    <2>1. \A k \in After(0, 0) : DOMAIN k = CardFields
      <3>1. After(0, 0) = {[PlainCard(card) EXCEPT !.state = "idle", !.rca = 0, !.width = 1,
                                                   !.blklen = BlockSize]}
        BY DEF After
      <3>2. DOMAIN PlainCard(card) = CardFields
        BY <1>1 DEF Shape, PlainCard
      <3> QED BY <3>1, <3>2
    <2>2. Answered(o, 0, 0) \/ Missed(o, 0, 0)
      BY OutcomeCases DEF Cmds
    <2>3. CASE Answered(o, 0, 0)
      BY <1>2, <2>1, <2>3 DEF Answered
    <2>4. CASE Missed(o, 0, 0)
      <3>1. DOMAIN PlainCard(card) = CardFields /\ DOMAIN card = CardFields
        BY <1>1 DEF Shape, PlainCard
      <3>2. \A k \in After(0, 0) : DOMAIN CutShort(k, 0) = CardFields
        BY <2>1 DEF CutShort
      <3> QED BY <1>2, <2>4, <3>1, <3>2 DEF Missed
    <2> QED BY <2>2, <2>3, <2>4
  <1>4. /\ DOMAIN host' = DOMAIN host /\ host'.run = host.run
        /\ DOMAIN drv' = DOMAIN drv /\ drv'.pc = "cmd55" /\ drv'.op = drv.op /\ hist' = hist
    BY <1>1 DEF Identify, Shape, DrvFields
  <1>5. host.run.left = 0
    BY <1>1 DEF SdInv, Quiet, First
  <1>6. Shape' /\ Link'
    BY <1>1, <1>3, <1>4, <1>5 DEF Shape, Link, RegisterRuns
  <1> HIDE DEF Shape, Link
  <1> QED BY <1>1, <1>4, <1>5, <1>6
    DEF SdInv, OpFits, Pending, Quiet, Agreed, InitMeansReady, First, Addressed, Named, Last,
        Ends, InitOps

\* The voltage command: its answer tells how the card is addressed.
LEMMA Cmd41Keeps == SdInv /\ Cmd41 => SdInv'
  <1> SUFFICES ASSUME SdInv, Cmd41 PROVE SdInv'
    OBVIOUS
  <1>1. drv.pc = "cmd41" /\ drv.op \in InitOps /\ Shape /\ Link
    BY DEF Cmd41, SdInv, OpFits, First, Addressed, Named, Last
  <1>2. PICK o \in Outcomes(41, 0) :
          LET up == o.answered /\ o.card.state = "ready"
              last == drv.ocr + 1 = OcrTries
              stop == drv.tries + 1 > IdentifyTries
          IN /\ Issue([o EXCEPT !.err = IF up \/ last THEN FALSE ELSE @], 41)
             /\ drv' = IF up THEN [drv EXCEPT !.pc = "cmd2", !.mode = card.kind]
                       ELSE IF ~last THEN [drv EXCEPT !.pc = "cmd55", !.ocr = @ + 1]
                       ELSE [drv EXCEPT !.pc = IF stop THEN "failed" ELSE "identify",
                                       !.tries = @ + 1]
    BY DEF Cmd41
  <1>3. DOMAIN o = {"card", "answered", "cost", "ok", "err"}
    BY OutcomeCases DEF Cmds
  <1>4. /\ DOMAIN drv' = DOMAIN drv /\ drv'.op = drv.op
        /\ drv'.pc \in {"cmd2", "cmd55", "failed", "identify"}
        /\ drv'.pc = "cmd2" => drv'.mode = card.kind
    BY <1>1, <1>2 DEF Shape, DrvFields
  <1>5. PICK b : Issue([o EXCEPT !.err = b], 41)
    BY <1>2
  <1>6. /\ card' = o.card /\ DOMAIN host' = DOMAIN host /\ host'.run = host.run
        /\ DOMAIN hist' = DOMAIN hist
    BY <1>1, <1>3, <1>5 DEF Issue, Shape
  <1>7. DOMAIN o.card = CardFields /\ o.card.kind = card.kind
    BY <1>1, CardChanges DEF Cmds, Shape
  <1>8. host.run.left = 0
    BY <1>1 DEF SdInv, Quiet, First
  <1>9. Shape' /\ Link'
    BY <1>1, <1>4, <1>6, <1>7, <1>8 DEF Shape, Link, RegisterRuns
  <1> HIDE DEF Shape, Link
  <1> QED BY <1>1, <1>4, <1>6, <1>7, <1>8, <1>9
    DEF SdInv, OpFits, Pending, Quiet, Agreed, InitMeansReady, First, Addressed, Named, Last,
        Ends, InitOps

LEMMA Cmd3Keeps == SdInv /\ Cmd3 => SdInv'
  <1> SUFFICES ASSUME SdInv, Cmd3 PROVE SdInv'
    OBVIOUS
  <1>1. drv.pc = "cmd3" /\ drv.op \in InitOps /\ Shape /\ Link
    BY DEF Cmd3, SdInv, OpFits, First, Addressed, Named, Last
  <1>2. PICK o \in Outcomes(3, 0) :
          /\ Issue(o, 3)
          /\ \E rca \in IF o.answered THEN {Rca} ELSE {Rca, Bogus} :
               drv' = [drv EXCEPT !.pc = "cmd9", !.rca = rca]
    BY DEF Cmd3
  <1>3. PICK rca : drv' = [drv EXCEPT !.pc = "cmd9", !.rca = rca]
    BY <1>2
  <1>4. 3 \in Cmds \ {0}
    BY DEF Cmds
  <1>5. DOMAIN drv' = DOMAIN drv /\ drv'.pc = "cmd9" /\ drv'.op = drv.op /\ drv'.mode = drv.mode
    BY <1>1, <1>3 DEF Shape, DrvFields
  <1>6. host.run.left = 0
    BY <1>1 DEF SdInv, Quiet, Named
  <1>7. /\ DOMAIN host' = DOMAIN host /\ DOMAIN card' = CardFields /\ DOMAIN hist' = DOMAIN hist
        /\ host'.run = host.run /\ card'.kind = card.kind
    BY <1>1, <1>2, <1>4, Issued
  <1>8. Shape' /\ Link'
    BY <1>1, <1>5, <1>6, <1>7 DEF Shape, Link, RegisterRuns
  <1> HIDE DEF Shape, Link
  <1> QED BY <1>1, <1>5, <1>6, <1>7, <1>8
    DEF SdInv, OpFits, Pending, Quiet, Agreed, InitMeansReady, First, Addressed, Named, Last,
        Ends, InitOps

\* Reading a register: a block is under way if the card answered, and may be if not.
LEMMA Scr51Keeps == SdInv /\ Scr51 => SdInv'
  <1> SUFFICES ASSUME SdInv, Scr51 PROVE SdInv'
    OBVIOUS
  <1>1. drv.pc = "scr51" /\ drv.op \in InitOps /\ Shape /\ Link
    BY DEF Scr51, SdInv, OpFits, First, Addressed, Named, Last
  <1>2. PICK o \in Outcomes(51, 0) :
          /\ card' = o.card /\ faults' = faults - o.cost
          /\ hist' = [hist EXCEPT !.hurt = @ \/ o.cost = 1]
          /\ host' = IF o.answered THEN [host EXCEPT !.err = o.err, !.run = OneBlock("scr"),
                                            !.port = <<>>,
                                            !.ready = /\ OneBlock("scr").dir = "write"
                                                      /\ OneBlock("scr").left > 0]
                     ELSE [host EXCEPT !.err = o.err]
          /\ drv' = IF o.ok THEN ReadRegister("scr") ELSE GoTo("version")
    BY DEF Scr51, SendData
  <1>3. 51 \in Cmds \ {0} /\ 51 \in Cmds
    BY DEF Cmds
  <1>4. /\ DOMAIN drv' = DOMAIN drv /\ drv'.mode = drv.mode /\ drv'.rca = drv.rca
        /\ \/ drv'.pc = "wait" /\ drv'.op = "scr" /\ o.ok
           \/ drv'.pc = "version" /\ drv'.op = drv.op /\ ~o.ok
    BY <1>1, <1>2 DEF Shape, DrvFields, ReadRegister, GoTo
  <1>5. /\ DOMAIN card' = CardFields /\ card'.kind = card.kind /\ card'.rca = card.rca
    BY <1>1, <1>2, <1>3, CardChanges DEF Shape
  <1>6. DOMAIN hist' = DOMAIN hist
    BY <1>1, <1>2
  <1>7. Answered(o, 51, 0) \/ Missed(o, 51, 0)
    BY <1>3, OutcomeCases
  <1>8. host.run.left = 0
    BY <1>1 DEF SdInv, Quiet, Agreed, Named, Addressed
  <1>9. ASSUME o.answered
        PROVE  /\ card'.state = "data" /\ DOMAIN host' = DOMAIN host
               /\ host'.run = OneBlock("scr") /\ host'.port = <<>> /\ ~host'.ready
    <2>1. Obeys(51, 0) /\ card' \in After(51, 0)
      BY <1>2, <1>7, <1>9 DEF Answered, Missed
    <2>2. card'.state = "data"
      BY <1>1, <1>3, <1>8, <2>1, AfterChanges DEF Shape
    <2>3. host' = [host EXCEPT !.err = o.err, !.run = OneBlock("scr"), !.port = <<>>,
                               !.ready = /\ OneBlock("scr").dir = "write"
                                         /\ OneBlock("scr").left > 0]
      BY <1>2, <1>9
    <2>4. OneBlock("scr").dir # "write"
      BY DEF OneBlock
    <2> QED BY <1>1, <2>2, <2>3, <2>4 DEF Shape
  <1>10. ASSUME ~o.answered PROVE DOMAIN host' = DOMAIN host /\ host'.run = host.run
    BY <1>1, <1>2, <1>10 DEF Shape
  <1>11. OneBlock("scr") \in RegisterRuns /\ OneBlock("scr").dir = "scr"
    BY DEF OneBlock, RegisterRuns
  <1>12. Shape' /\ Link'
    BY <1>1, <1>4, <1>5, <1>6, <1>8, <1>9, <1>10, <1>11 DEF Shape, Link, RegisterRuns
  <1>13. drv'.pc = "wait" /\ drv'.op = "switch" =>
           \/ host'.run.left = 0
           \/ host'.run.dir = "switch" /\ host'.port = <<>> /\ ~host'.ready
    BY <1>4, <1>8, <1>9, <1>10, <1>11
  <1> HIDE DEF Shape, Link
  <1> QED BY <1>1, <1>4, <1>5, <1>12, <1>13
    DEF SdInv, OpFits, Pending, Quiet, Agreed, InitMeansReady, First, Addressed, Named, Last,
        Ends, InitOps

LEMMA Speed6Keeps == SdInv /\ Speed6 => SdInv'
  <1> SUFFICES ASSUME SdInv, Speed6 PROVE SdInv'
    OBVIOUS
  <1>1. drv.pc = "speed6" /\ drv.op \in InitOps /\ Shape /\ Link
    BY DEF Speed6, SdInv, OpFits, First, Addressed, Named, Last
  <1>2. PICK o \in Outcomes(6, 0) :
          /\ card' = o.card /\ faults' = faults - o.cost
          /\ hist' = [hist EXCEPT !.hurt = @ \/ o.cost = 1]
          /\ host' = IF o.answered THEN [host EXCEPT !.err = o.err, !.run = OneBlock("switch"),
                                            !.port = <<>>,
                                            !.ready = /\ OneBlock("switch").dir = "write"
                                                      /\ OneBlock("switch").left > 0]
                     ELSE [host EXCEPT !.err = o.err]
          /\ drv' = IF o.ok THEN ReadRegister("switch") ELSE GoTo("failed")
    BY DEF Speed6, SendData
  <1>3. 6 \in Cmds \ {0} /\ 6 \in Cmds
    BY DEF Cmds
  <1>4. /\ DOMAIN drv' = DOMAIN drv /\ drv'.mode = drv.mode /\ drv'.rca = drv.rca
        /\ \/ drv'.pc = "wait" /\ drv'.op = "switch" /\ o.ok
           \/ drv'.pc = "failed" /\ drv'.op = drv.op /\ ~o.ok
    BY <1>1, <1>2 DEF Shape, DrvFields, ReadRegister, GoTo
  <1>5. /\ DOMAIN card' = CardFields /\ card'.kind = card.kind /\ card'.rca = card.rca
    BY <1>1, <1>2, <1>3, CardChanges DEF Shape
  <1>6. DOMAIN hist' = DOMAIN hist
    BY <1>1, <1>2
  <1>7. Answered(o, 6, 0) \/ Missed(o, 6, 0)
    BY <1>3, OutcomeCases
  <1>8. host.run.left = 0 /\ ~card.app
    BY <1>1 DEF SdInv, Quiet, Agreed, Named, Addressed
  <1>9. ASSUME o.answered
        PROVE  /\ card'.state = "data" /\ DOMAIN host' = DOMAIN host
               /\ host'.run = OneBlock("switch") /\ host'.port = <<>> /\ ~host'.ready
    <2>1. Obeys(6, 0) /\ card' \in After(6, 0)
      BY <1>2, <1>7, <1>9 DEF Answered, Missed
    <2>2. card'.state = "data"
      BY <1>1, <1>3, <1>8, <2>1, AfterChanges DEF Shape
    <2>3. host' = [host EXCEPT !.err = o.err, !.run = OneBlock("switch"), !.port = <<>>,
                               !.ready = /\ OneBlock("switch").dir = "write"
                                         /\ OneBlock("switch").left > 0]
      BY <1>2, <1>9
    <2>4. OneBlock("switch").dir # "write"
      BY DEF OneBlock
    <2> QED BY <1>1, <2>2, <2>3, <2>4 DEF Shape
  <1>10. ASSUME ~o.answered PROVE DOMAIN host' = DOMAIN host /\ host'.run = host.run
    BY <1>1, <1>2, <1>10 DEF Shape
  <1>11. OneBlock("switch") \in RegisterRuns /\ OneBlock("switch").dir = "switch"
    BY DEF OneBlock, RegisterRuns
  <1>12. Shape' /\ Link'
    BY <1>1, <1>4, <1>5, <1>6, <1>8, <1>9, <1>10, <1>11 DEF Shape, Link, RegisterRuns
  <1>13. drv'.pc = "wait" /\ drv'.op = "switch" =>
           \/ host'.run.left = 0
           \/ host'.run.dir = "switch" /\ host'.port = <<>> /\ ~host'.ready
    BY <1>4, <1>8, <1>9, <1>10, <1>11
  <1> HIDE DEF Shape, Link
  <1> QED BY <1>1, <1>4, <1>5, <1>12, <1>13
    DEF SdInv, OpFits, Pending, Quiet, Agreed, InitMeansReady, First, Addressed, Named, Last,
        Ends, InitOps

LEMMA VersionKeeps == SdInv /\ Version => SdInv'
  <1> SUFFICES ASSUME SdInv, Version PROVE SdInv'
    OBVIOUS
  <1>1. drv.pc = "version" /\ drv.op \in InitOps /\ Shape /\ Link
    BY DEF Version, SdInv, OpFits, First, Addressed, Named, Last
  <1>2. /\ DOMAIN drv' = DOMAIN drv /\ drv'.pc \in {"speed16", "assert"} /\ drv'.op = drv.op
        /\ drv'.mode = drv.mode /\ drv'.rca = drv.rca
    BY <1>1 DEF Version, GoTo, Shape, DrvFields
  <1>3. host' = host /\ card' = card /\ hist' = hist
    BY DEF Version
  <1>4. Shape' /\ Link'
    BY <1>1, <1>2, <1>3 DEF Shape, Link, RegisterRuns
  <1> HIDE DEF Shape, Link
  <1> QED BY <1>1, <1>2, <1>3, <1>4
    DEF SdInv, OpFits, Pending, Quiet, Agreed, InitMeansReady, First, Addressed, Named, Last,
        Ends, InitOps

\* The bus width: that ACMD6 is obeyed as such rests on the bit CMD55 leaves.
LEMMA Width6Keeps == SdInv /\ Width6 => SdInv'
  <1> SUFFICES ASSUME SdInv, Width6 PROVE SdInv'
    OBVIOUS
  <1>1. drv.pc = "width6" /\ drv.op \in InitOps /\ Shape /\ Link
    BY DEF Width6, SdInv, OpFits, First, Addressed, Named, Last
  <1>2. PICK o \in Outcomes(6, 4) :
          /\ card' = [o.card EXCEPT !.state = IF @ = "data" THEN "tran" ELSE @]
          /\ host' = [host EXCEPT !.err = o.err, !.width = IF o.ok THEN 4 ELSE @]
          /\ drv' = IF o.ok THEN [drv EXCEPT !.pc = "cmd13", !.op = "init"] ELSE GoTo("failed")
    BY DEF Width6
  <1>3. 6 \in Cmds \ {0} /\ 6 \in Cmds
    BY DEF Cmds
  <1>4. /\ DOMAIN drv' = DOMAIN drv /\ drv'.mode = drv.mode /\ drv'.rca = drv.rca
        /\ \/ drv'.pc = "cmd13" /\ drv'.op = "init" /\ o.ok
           \/ drv'.pc = "failed" /\ drv'.op = drv.op /\ ~o.ok
    BY <1>1, <1>2 DEF Shape, DrvFields, GoTo
  <1>5. DOMAIN o.card = CardFields /\ o.card.kind = card.kind /\ o.card.rca = card.rca
    BY <1>1, <1>3, CardChanges DEF Shape
  <1>6. /\ DOMAIN card' = CardFields /\ card'.kind = card.kind /\ card'.rca = card.rca
        /\ card'.width = o.card.width
    BY <1>2, <1>5 DEF CardFields
  <1>7. Answered(o, 6, 4) \/ Missed(o, 6, 4)
    BY <1>3, OutcomeCases
  <1>8. host.run.left = 0 /\ (host.err \/ card.app)
    BY <1>1 DEF SdInv, Quiet, Agreed, Named, Addressed
  <1>9. DOMAIN host' = DOMAIN host /\ host'.run = host.run
    BY <1>1, <1>2 DEF Shape
  <1>10. ASSUME o.ok PROVE card'.width = host'.width
    <2>1. Obeys(6, 4) /\ o.card \in After(6, 4) /\ ~host.err
      <3>1. 6 \notin Forgiven
        BY DEF Forgiven
      <3>2. ~Missed(o, 6, 4)
        BY <1>10, <3>1 DEF Missed
      <3> QED BY <1>7, <1>10, <3>1, <3>2 DEF Answered
    <2>2. o.card.width = 4
      BY <1>1, <1>3, <1>8, <2>1, AfterChanges DEF Shape
    <2> QED BY <1>1, <1>2, <1>6, <1>10, <2>2 DEF Shape
  <1>11. hist' = hist
    BY DEF Width6
  <1>12. Shape' /\ Link'
    BY <1>1, <1>4, <1>6, <1>8, <1>9, <1>11 DEF Shape, Link, RegisterRuns
  <1> HIDE DEF Shape, Link
  <1> QED BY <1>1, <1>4, <1>6, <1>8, <1>9, <1>10, <1>12
    DEF SdInv, OpFits, Pending, Quiet, Agreed, InitMeansReady, First, Addressed, Named, Last,
        Ends, InitOps

\* The wait for the card: at the end of SDHC_Init and at the start of every call.
LEMMA Cmd13Keeps == SdInv /\ Cmd13 => SdInv'
  <1> SUFFICES ASSUME SdInv, Cmd13 PROVE SdInv'
    OBVIOUS
  <1>s. Shape
    BY DEF SdInv
  <1>1. PICK o \in Outcomes(13, drv.rca) :
          /\ Issue(o, 13)
          /\ drv' = IF o.ok /\ o.card.state \in {"rcv", "prg"} THEN drv
                    ELSE IF o.ok /\ o.card.state = "tran"
                         THEN GoTo(IF drv.op = "init" THEN "cmd16" ELSE "command")
                    ELSE IF drv.op = "init" THEN GoTo("failed") ELSE Return(3)
    BY DEF Cmd13
  <1>2. drv.pc = "cmd13" /\ drv.op \in {"init", "read", "write"}
    BY DEF Cmd13, SdInv, OpFits
  <1>3. 13 \in Cmds \ {0} /\ 13 \notin Forgiven
    BY DEF Cmds, Forgiven
  <1>4. /\ DOMAIN drv' = DOMAIN drv /\ drv'.op = drv.op /\ drv'.mode = drv.mode /\ drv'.rca = drv.rca
        /\ \/ o.ok /\ (drv'.pc = "cmd13" \/ drv'.pc = IF drv.op = "init" THEN "cmd16" ELSE "command")
           \/ drv.op = "init" /\ drv'.pc = "failed"
           \/ drv.op # "init" /\ drv'.pc = "returned" /\ drv'.ret = 3
    BY <1>1, <1>2, <1>s DEF GoTo, Return, Shape, DrvFields
  <1>5. /\ DOMAIN host' = DOMAIN host /\ DOMAIN card' = CardFields /\ DOMAIN hist' = DOMAIN hist
        /\ host'.run = host.run /\ host'.width = host.width
        /\ card'.kind = card.kind /\ card'.rca = card.rca /\ card'.width = card.width
        /\ card.state = "data" => card'.state = "data"
    BY <1>1, <1>3, <1>s, Issued
  <1>6. o.ok => ~host.err /\ (hist'.hurt <=> hist.hurt)
    BY <1>1, <1>3, <1>s, Issued
  <1>7. Shape' /\ (Link => Link')
    BY <1>4, <1>5, <1>s DEF Shape, Link, RegisterRuns
  <1> HIDE DEF Shape, Link
  <1> QED BY <1>2, <1>4, <1>5, <1>6, <1>7
    DEF SdInv, OpFits, Pending, Quiet, Agreed, InitMeansReady, First, Addressed, Named, Last,
        Ends, InitOps

\* The data command of a call: it is not sent for good with an error pending.
LEMMA CommandKeeps == SdInv /\ Command => SdInv'
  <1> SUFFICES ASSUME SdInv, Command PROVE SdInv'
    OBVIOUS
  <1>s. Shape
    BY DEF SdInv
  <1> DEFINE c == CASE drv.op = "write" /\ drv.blocks = 1 -> 24
                    [] drv.op = "write" /\ ~(drv.blocks = 1) -> 25
                    [] ~(drv.op = "write") /\ drv.blocks = 1 -> 17 [] OTHER -> 18
             run == [dir |-> drv.op, at |-> Block(Address), left |-> drv.blocks,
                     multi |-> ~(drv.blocks = 1)]
             no == Return(IF drv.blocks = 1 THEN 4 ELSE 5)
  <1>1. SendData(c, Address, run, GoTo(FirstWait), no)
    BY DEF Command
  <1>2. drv.pc = "command" /\ drv.op \in {"read", "write"}
    BY DEF Command, SdInv, OpFits
  <1>3. c \in {17, 18, 24, 25}
    OBVIOUS
  <1>4. c \in Cmds \ {0} /\ c \in Cmds /\ c \notin Forgiven
    BY <1>3 DEF Cmds, Forgiven
  <1>5. /\ DOMAIN GoTo(FirstWait) = DOMAIN drv /\ GoTo(FirstWait).op = drv.op
        /\ GoTo(FirstWait).pc \in {"wait", "complete"}
        /\ DOMAIN no = DOMAIN drv /\ no.op = drv.op /\ no.pc = "returned" /\ no.ret \in {4, 5}
    BY <1>s DEF GoTo, FirstWait, Return, Shape, DrvFields
  <1> HIDE DEF c, run, no
  <1>6. PICK o \in Outcomes(c, Address) :
          /\ card' = o.card
          /\ hist' = [hist EXCEPT !.hurt = @ \/ o.cost = 1]
          /\ host' = IF o.answered THEN [host EXCEPT !.err = o.err, !.run = run, !.port = <<>>,
                                            !.ready = run.dir = "write" /\ run.left > 0]
                     ELSE [host EXCEPT !.err = o.err]
          /\ drv' = IF o.ok THEN GoTo(FirstWait) ELSE no
    BY <1>1 DEF SendData
  <1>7. DOMAIN card' = CardFields
    BY <1>4, <1>6, <1>s, CardChanges DEF Shape
  <1>8. DOMAIN host' = DOMAIN host /\ DOMAIN hist' = DOMAIN hist
    BY <1>6, <1>s DEF Shape
  <1>9. Shape'
    BY <1>5, <1>6, <1>7, <1>8, <1>s DEF Shape
  <1>10. Answered(o, c, Address) \/ Missed(o, c, Address)
    BY <1>4, OutcomeCases
  <1>11. ASSUME o.ok PROVE ~host.err /\ o.cost = 0
    <2>1. ~Missed(o, c, Address)
      BY <1>4, <1>11 DEF Missed
    <2> QED BY <1>4, <1>10, <1>11, <2>1 DEF Answered
  <1>12. o.ok => (hist'.hurt <=> hist.hurt)
    <2>1. hist' = [hist EXCEPT !.hurt = @ \/ o.cost = 1] /\ "hurt" \in DOMAIN hist
      BY <1>6, <1>s DEF Shape
    <2>2. hist'.hurt <=> hist.hurt \/ o.cost = 1
      BY <2>1
    <2> QED BY <1>11, <2>2
  <1>13. /\ drv'.op = drv.op
         /\ \/ o.ok /\ drv'.pc \in {"wait", "complete"}
            \/ drv'.pc = "returned" /\ drv'.ret \in {4, 5}
    BY <1>5, <1>6
  <1> HIDE DEF Shape, Link
  <1> QED BY <1>2, <1>9, <1>11, <1>12, <1>13
    DEF SdInv, OpFits, Pending, Quiet, Agreed, InitMeansReady, First, Addressed, Named, Last,
        Ends, InitOps

LEMMA WaitBufferKeeps == SdInv /\ WaitBuffer => SdInv'
  <1> SUFFICES ASSUME SdInv, WaitBuffer PROVE SdInv'
    OBVIOUS
  <1>s. Shape
    BY DEF SdInv
  <1>1. /\ DOMAIN drv' = DOMAIN drv /\ drv.pc = "wait" /\ drv'.pc = "move" /\ drv'.op = drv.op
        /\ drv'.mode = drv.mode /\ drv'.rca = drv.rca
        /\ DOMAIN host' = DOMAIN host /\ host'.run = host.run /\ host'.err = host.err /\ host.ready
    BY <1>s DEF WaitBuffer, GoTo, Shape, DrvFields
  <1>2. card' = card /\ hist' = hist
    BY DEF WaitBuffer
  <1>3. Shape' /\ (Link => Link')
    BY <1>1, <1>2, <1>s DEF Shape, Link, RegisterRuns
  <1> HIDE DEF Shape, Link
  <1> QED BY <1>1, <1>2, <1>3
    DEF SdInv, OpFits, Pending, Quiet, Agreed, InitMeansReady, First, Addressed, Named, Last,
        Ends, InitOps

LEMMA WaitBufferRunsOutKeeps == SdInv /\ WaitBufferRunsOut => SdInv'
  <1> SUFFICES ASSUME SdInv, WaitBufferRunsOut PROVE SdInv'
    OBVIOUS
  <1>s. Shape
    BY DEF SdInv
  <1>1. /\ DOMAIN drv' = DOMAIN drv /\ drv.pc = "wait" /\ drv'.pc = "move" /\ drv'.op = drv.op
        /\ drv'.mode = drv.mode /\ drv'.rca = drv.rca
        /\ DOMAIN hist' = DOMAIN hist /\ hist'.hurt = hist.hurt
    BY <1>s DEF WaitBufferRunsOut, GoTo, Shape, DrvFields
  <1>2. card' = card /\ host' = host
    BY DEF WaitBufferRunsOut
  <1>3. Shape' /\ (Link => Link')
    BY <1>1, <1>2, <1>s DEF Shape, Link, RegisterRuns
  <1>4. Link /\ host.run.dir = "switch" /\ host.port = <<>> => host.run.left = 0
    BY DEF Link, RegisterRuns, WaitBufferRunsOut, BufferWillBeReady
  <1> HIDE DEF Shape, Link
  <1> QED BY <1>1, <1>2, <1>3, <1>4
    DEF SdInv, OpFits, Pending, Quiet, Agreed, InitMeansReady, First, Addressed, Named, Last,
        Ends, InitOps

LEMMA MoveBlockKeeps == SdInv /\ MoveBlock => SdInv'
  <1> SUFFICES ASSUME SdInv, MoveBlock PROVE SdInv'
    OBVIOUS
  <1>s. Shape
    BY DEF SdInv
  <1>1. /\ drv.pc = "move" /\ card' = card /\ hist' = hist
        /\ DOMAIN drv' = DOMAIN drv /\ drv'.op = drv.op /\ drv'.pc \in {"wait", "complete"}
        /\ drv'.mode = drv.mode /\ drv'.rca = drv.rca
    BY <1>s DEF MoveBlock, Shape, DrvFields
  <1>2. DOMAIN host' = DOMAIN host /\ host'.run = host.run /\ host'.err = host.err
    BY <1>s DEF MoveBlock, Shape
  <1>3. Shape' /\ (Link => Link')
    BY <1>1, <1>2, <1>s DEF Shape, Link, RegisterRuns
  <1> HIDE DEF Shape, Link
  <1> QED BY <1>1, <1>2, <1>3
    DEF SdInv, OpFits, Pending, Quiet, Agreed, InitMeansReady, First, Addressed, Named, Last,
        Ends, InitOps

\* What follows a transfer: the driver goes on with SDHC_Init or returns.
LEMMA FinishedIs ==
  ASSUME SdInv, drv.pc = "complete", NEW d \in Finished
  PROVE  /\ DOMAIN d = DOMAIN drv /\ d.op = drv.op /\ d.mode = drv.mode /\ d.rca = drv.rca
         /\ \/ drv.op = "scr" /\ d.pc = "version"
            \/ drv.op = "switch" /\ d.pc = "width55"
            \/ drv.op \in {"read", "write"} /\ d.pc = "returned"
  <1>1. drv.op \in {"scr", "switch", "read", "write"} /\ DOMAIN drv = DrvFields
    BY DEF SdInv, OpFits, Shape
  <1>2. CASE drv.op = "scr"
    <2>1. PICK v : d = [drv EXCEPT !.pc = "version", !.ver = v]
      BY <1>2 DEF Finished
    <2> QED BY <1>1, <1>2, <2>1 DEF DrvFields
  <1>3. CASE drv.op = "switch"
    BY <1>1, <1>3 DEF Finished, GoTo, DrvFields
  <1>4. CASE drv.op = "read"
    BY <1>1, <1>4 DEF Finished, Return, DrvFields
  <1>5. CASE drv.op = "write"
    BY <1>1, <1>5 DEF Finished, Return, DrvFields
  <1> QED BY <1>1, <1>2, <1>3, <1>4, <1>5

LEMMA CompleteKeepsSd == SdInv /\ (WaitComplete \/ WaitCompleteRunsOut) => SdInv'
  <1> SUFFICES ASSUME SdInv, WaitComplete \/ WaitCompleteRunsOut PROVE SdInv'
    OBVIOUS
  <1>s. Shape
    BY DEF SdInv
  <1>1. /\ drv.pc = "complete" /\ drv' \in Finished /\ card' = card
        /\ DOMAIN host' = DOMAIN host /\ host'.run = host.run /\ host'.err = host.err
        /\ DOMAIN hist' = DOMAIN hist /\ hist'.hurt = hist.hurt
    BY <1>s DEF WaitComplete, WaitCompleteRunsOut, Shape
  <1>2. /\ DOMAIN drv' = DOMAIN drv /\ drv'.op = drv.op /\ drv'.mode = drv.mode /\ drv'.rca = drv.rca
        /\ \/ drv.op = "scr" /\ drv'.pc = "version"
           \/ drv.op = "switch" /\ drv'.pc = "width55"
           \/ drv.op \in {"read", "write"} /\ drv'.pc = "returned"
    BY <1>1, FinishedIs
  <1>3. Shape' /\ (Link => Link')
    BY <1>1, <1>2, <1>s DEF Shape, Link, RegisterRuns
  <1> HIDE DEF Shape, Link
  <1> QED BY <1>1, <1>2, <1>3
    DEF SdInv, OpFits, Pending, Quiet, Agreed, InitMeansReady, First, Addressed, Named, Last,
        Ends, InitOps

-----------------------------------------------------------------------------
(* The steps of controller and card, and the calls.                        *)

LEMMA MovedRun ==
  ASSUME NEW r \in RegisterRuns, r.left = 1
  PROVE  LET m == [r EXCEPT !.at = @ + 1, !.left = @ - 1] IN m \in RegisterRuns /\ m.left = 0
  <1> DEFINE at == r.at + 1
             r1 == [r EXCEPT !.at = at]
             left == r1.left - 1
  <1>1. at \in Int
    BY DEF RegisterRuns
  <1> HIDE DEF at
  <1>2. r1 \in RegisterRuns /\ r1.left = 1
    BY <1>1 DEF RegisterRuns
  <1> HIDE DEF r1
  <1>3. left = 0
    BY <1>2
  <1> HIDE DEF left
  <1>4. [r1 EXCEPT !.left = left] \in RegisterRuns /\ [r1 EXCEPT !.left = left].left = 0
    BY <1>2, <1>3 DEF RegisterRuns
  <1>5. [r EXCEPT !.at = @ + 1, !.left = @ - 1] = [r1 EXCEPT !.left = left]
    BY DEF r1, left, at
  <1> QED BY <1>4, <1>5

LEMMA CardSendsKeeps == SdInv /\ CardSends => SdInv'
  <1> SUFFICES ASSUME SdInv, CardSends PROVE SdInv'
    OBVIOUS
  <1>s. Shape
    BY DEF SdInv
  <1>1. /\ drv' = drv /\ hist' = hist
        /\ DOMAIN host' = DOMAIN host /\ host'.err = host.err /\ host'.width = host.width
        /\ host'.run = Moved /\ host.run.left > 0
        /\ DOMAIN card' = CardFields /\ card'.kind = card.kind /\ card'.rca = card.rca
        /\ card'.width = card.width /\ card'.app = card.app
    BY <1>s DEF CardSends, Shape, CardFields
  <1>2. Link => Link' /\ host'.run.left = 0
    <2>1. ASSUME Link PROVE host.run.left = 1
      BY <1>1, <2>1 DEF Link, RegisterRuns
    <2>2. ASSUME Link
          PROVE  Moved \in RegisterRuns /\ Moved.left = 0
      BY <2>1, <2>2, MovedRun DEF Link, RegisterRuns, Moved
    <2> QED BY <1>1, <2>2 DEF Link, RegisterRuns
  <1>3. Shape'
    BY <1>1, <1>s DEF Shape
  <1>4. drv.pc # "ready"
    BY <1>1 DEF SdInv, OpFits, Quiet, Last
  <1> HIDE DEF Shape, Link
  <1> QED BY <1>1, <1>2, <1>3, <1>4
    DEF SdInv, OpFits, Pending, Quiet, Agreed, InitMeansReady, First, Addressed, Named, Last,
        Ends, InitOps

LEMMA CardTakesKeeps == SdInv /\ CardTakes => SdInv'
  <1> SUFFICES ASSUME SdInv, CardTakes PROVE SdInv'
    OBVIOUS
  <1>s. Shape
    BY DEF SdInv
  <1>1. /\ drv' = drv /\ hist' = hist /\ card' = card
        /\ DOMAIN host' = DOMAIN host /\ host'.err = host.err
        /\ host.run.dir = "write"
    BY <1>s DEF CardTakes, Shape
  <1>2. ~Link /\ drv.op \notin InitOps /\ drv.pc \notin Last
    <2>1. ~Link
      BY <1>1 DEF Link, RegisterRuns
    <2> QED BY <2>1 DEF SdInv, OpFits
  <1>3. Shape'
    BY <1>1, <1>s DEF Shape
  <1> HIDE DEF Shape, Link
  <1> QED BY <1>1, <1>2, <1>3
    DEF SdInv, OpFits, Pending, Quiet, Agreed, InitMeansReady, First, Addressed, Named, Last,
        Ends, InitOps

LEMMA DamageKeeps == SdInv /\ Damage => SdInv'
  <1> SUFFICES ASSUME SdInv, Damage PROVE SdInv'
    OBVIOUS
  <1>s. Shape
    BY DEF SdInv
  <1>1. /\ drv' = drv /\ DOMAIN hist' = DOMAIN hist /\ host.run.left > 0
    BY <1>s DEF Damage, Shape
  <1>2. PICK port, stuck :
          /\ host' = [host EXCEPT !.run = Idle, !.err = TRUE, !.port = port, !.ready = port # <<>>]
          /\ card' = [card EXCEPT !.state = IF stuck THEN @ ELSE "tran"]
    BY DEF Damage
  <1>3. /\ DOMAIN host' = DOMAIN host /\ host'.err /\ host'.run = Idle /\ host'.width = host.width
        /\ DOMAIN card' = CardFields /\ card'.kind = card.kind /\ card'.rca = card.rca
        /\ card'.width = card.width /\ card'.app = card.app
    BY <1>2, <1>s DEF Shape, CardFields
  <1>4. Idle \in RegisterRuns /\ Idle.left = 0
    BY DEF Idle, RegisterRuns
  <1>5. Shape' /\ Link'
    BY <1>1, <1>3, <1>4, <1>s DEF Shape, Link, RegisterRuns
  <1>6. drv.pc # "ready"
    BY <1>1 DEF SdInv, OpFits, Quiet, Last
  <1> HIDE DEF Shape, Link
  <1> QED BY <1>1, <1>3, <1>4, <1>5, <1>6
    DEF SdInv, OpFits, Pending, Quiet, Agreed, InitMeansReady, First, Addressed, Named, Last,
        Ends, InitOps

LEMMA CompleteKeeps == SdInv /\ Complete => SdInv'
  <1> SUFFICES ASSUME SdInv, Complete PROVE SdInv'
    OBVIOUS
  <1>s. Shape
    BY DEF SdInv
  <1>1. /\ drv' = drv /\ hist' = hist
        /\ DOMAIN host' = DOMAIN host /\ host'.err = host.err /\ host'.width = host.width
        /\ host'.run = Idle
        /\ DOMAIN card' = CardFields /\ card'.kind = card.kind /\ card'.rca = card.rca
        /\ card'.width = card.width /\ card'.app = card.app /\ card'.blklen = card.blklen
        /\ host.run.dir # "write" => card'.state = "tran"
    BY <1>s DEF Complete, Shape, CardFields
  <1>2. Idle \in RegisterRuns /\ Idle.left = 0
    BY DEF Idle, RegisterRuns
  <1>3. Shape' /\ Link'
    BY <1>1, <1>2, <1>s DEF Shape, Link, RegisterRuns
  <1>4. Link => card'.state = "tran"
    BY <1>1 DEF Link, RegisterRuns
  <1> HIDE DEF Shape, Link
  <1> QED BY <1>1, <1>2, <1>3, <1>4
    DEF SdInv, OpFits, Pending, Quiet, Agreed, InitMeansReady, First, Addressed, Named, Last,
        Ends, InitOps

LEMMA ProgrammedKeeps == SdInv /\ Programmed => SdInv'
  <1> SUFFICES ASSUME SdInv, Programmed PROVE SdInv'
    OBVIOUS
  <1>s. Shape
    BY DEF SdInv
  <1>1. /\ drv' = drv /\ hist' = hist /\ host' = host /\ card.state = "prg"
        /\ DOMAIN card' = CardFields /\ card'.kind = card.kind /\ card'.rca = card.rca
        /\ card'.width = card.width /\ card'.app = card.app
    BY <1>s DEF Programmed, Shape, CardFields
  <1>2. Shape' /\ (Link => Link')
    BY <1>1, <1>s DEF Shape, Link, RegisterRuns
  <1> HIDE DEF Shape, Link
  <1> QED BY <1>1, <1>2
    DEF SdInv, OpFits, Pending, Quiet, Agreed, InitMeansReady, First, Addressed, Named, Last,
        Ends, InitOps

LEMMA CallKeeps ==
  ASSUME SdInv, NEW op \in {"read", "write"}, NEW start, NEW n, Call(op, start, n)
  PROVE  SdInv'
  <1>s. Shape
    BY DEF SdInv
  <1>1. /\ DOMAIN drv' = DOMAIN drv /\ drv'.pc = "cmd13" /\ drv'.op = op
        /\ DOMAIN hist' = DOMAIN hist /\ ~hist'.hurt /\ host' = host /\ card' = card
    BY <1>s DEF Call, Shape, DrvFields
  <1>2. Shape'
    BY <1>1, <1>s DEF Shape
  <1> HIDE DEF Shape, Link
  <1> QED BY <1>1, <1>2
    DEF SdInv, OpFits, Pending, Quiet, Agreed, InitMeansReady, First, Addressed, Named, Last,
        Ends, InitOps

-----------------------------------------------------------------------------
(* What is moved.  Beside SdInv the transfers need: the ranges of the fields,  *)
(* what the blocks of the registers are, and that the driver has the card's    *)
(* address only after it has its kind.                                         *)

States == {"idle", "ready", "ident", "stby", "tran", "data", "rcv", "prg"}
Powered == {"stby", "tran", "data", "rcv", "prg"}
Moving == {"wait", "move", "complete"}
RegisterValues == {Damaged, CardRegister} \cup {Scr(v) : v \in 0..2}

Typed ==
  /\ drv.mode \in {"byte", "block"} /\ drv.rca \in {0, Rca, Bogus} /\ drv.ver \in 0..2
  /\ drv.start \in Nat /\ drv.blocks \in 0..MaxBlocks /\ drv.start + drv.blocks <= CardBlocks
  /\ drv.remain \in 0..MaxBlocks /\ (drv.pc \in {"wait", "move"} => drv.remain > 0)
  /\ drv.ret \in {-1, 0, 1, 3, 4, 5}
  /\ drv.ocr \in 0..OcrTries /\ (drv.pc \in {"cmd55", "cmd41"} => drv.ocr < OcrTries)
  /\ drv.tries \in 0..(IdentifyTries + 1) /\ (drv.pc \in First => drv.tries <= IdentifyTries)
  /\ host.run.left \in 0..MaxBlocks /\ host.run.at \in Int
  /\ DOMAIN host.run = {"dir", "at", "left", "multi"}
  /\ host.width \in {1, 4} /\ (host.port = <<>> \/ \E x : host.port = <<x>>)
  /\ faults \in 0..MaxFaults /\ hist.calls \in 0..MaxCalls
  /\ DOMAIN disk = 0..(CardBlocks - 1)

\* A card with a relative address has this one, and has it as soon as it leaves the
\* identification states.
CardTyped(k) ==
  /\ k.kind \in {"byte", "block"} /\ k.ver \in 0..2
  /\ k.rca \in {0, Rca} /\ k.state \in States
  /\ k.state \in Powered => k.rca = Rca

\* What SDHC_GetSdScr makes its version of.
Registers ==
  /\ drv.op \in InitOps => host.port = <<>> \/ \E x \in RegisterValues : host.port = <<x>>
  /\ drv.op \in {"scr", "switch"} /\ drv.pc \in {"wait", "move"} =>
       drv.buf = <<>> /\ drv.remain = 1
  /\ drv.op = "scr" /\ drv.pc = "complete" => \E x \in RegisterValues \cup {Stale} : drv.buf = <<x>>

Identified ==
  /\ drv.rca # 0 => drv.mode = card.kind
  /\ drv.pc \in First \cup {"cmd2", "cmd3"} => drv.rca = 0
  /\ drv.pc = "command" => drv.rca # 0
  /\ drv.pc \in First \cup {"cmd2", "cmd3"} => host.run = Idle
  /\ host.run = Idle \/ card.rca = Rca

Fields == Typed /\ CardTyped(card) /\ Registers /\ Identified

\* No outcome of a command takes a card out of these ranges.
LEMMA OutcomeCards ==
  ASSUME DOMAIN card = CardFields, CardTyped(card),
         NEW c \in Cmds, NEW arg, NEW o \in Outcomes(c, arg)
  PROVE  /\ DOMAIN o.card = CardFields /\ CardTyped(o.card)
         /\ o.card.kind = card.kind /\ o.card.ver = card.ver
         /\ c \notin {0, 6} => o.card.width = card.width
         /\ c \notin {0, 16} => o.card.blklen = card.blklen
         /\ c \notin {0, 3} => o.card.rca = card.rca
         /\ o.cost \in {0, 1} /\ (o.cost = 1 => faults # 0)
  <1> DEFINE Fits(k) == /\ DOMAIN k = CardFields /\ CardTyped(k)
                        /\ k.kind = card.kind /\ k.ver = card.ver
                        /\ c \notin {0, 6} => k.width = card.width
                        /\ c \notin {0, 16} => k.blklen = card.blklen
                        /\ c \notin {0, 3} => k.rca = card.rca
             P == PlainCard(card)
  <1>1. /\ DOMAIN P = CardFields /\ P.kind = card.kind /\ P.ver = card.ver /\ P.rca = card.rca
        /\ P.state = card.state /\ P.width = card.width /\ P.blklen = card.blklen
    BY DEF PlainCard, CardFields
  <1>2. Fits(card) /\ Fits(P)
    BY <1>1 DEF CardTyped
  <1> HIDE DEF P
  <1>3. ASSUME NEW k \in After(c, arg), Obeys(c, arg) PROVE Fits(k)
    <2>1. CASE c = 0
      <3>1. After(0, arg) = {[P EXCEPT !.state = "idle", !.rca = 0, !.width = 1, !.blklen = BlockSize]}
        BY DEF After, P
      <3>2. k = [P EXCEPT !.state = "idle", !.rca = 0, !.width = 1, !.blklen = BlockSize]
        BY <1>3, <2>1, <3>1
      <3>3. DOMAIN k = CardFields /\ k.kind = P.kind /\ k.ver = P.ver /\ k.state = "idle" /\ k.rca = 0
        BY <1>1, <3>2 DEF CardFields
      <3> QED BY <1>1, <2>1, <3>3 DEF CardTyped, States, Powered
    <2>2. CASE c = 3
      <3>1. k = [P EXCEPT !.state = "stby", !.rca = Rca]
        BY <1>3, <2>2, AfterIs DEF P
      <3>2. /\ DOMAIN k = CardFields /\ k.kind = P.kind /\ k.ver = P.ver /\ k.state = "stby"
            /\ k.rca = Rca /\ k.width = P.width /\ k.blklen = P.blklen
        BY <1>1, <3>1 DEF CardFields
      <3> QED BY <1>1, <2>2, <3>2 DEF CardTyped, States, Powered
    <2>3. CASE c \in {17, 18, 24, 25}
      <3>1. k = [P EXCEPT !.state = IF c \in {17, 18} THEN "data" ELSE "rcv"]
        BY <1>3, <2>3, AfterCall DEF P
      <3>2. card.state = "tran"
        BY <1>3, <2>3, ObeysWhen
      <3>3. /\ DOMAIN k = CardFields /\ k.kind = P.kind /\ k.ver = P.ver /\ k.state \in {"data", "rcv"}
            /\ k.rca = P.rca /\ k.width = P.width /\ k.blklen = P.blklen
        BY <1>1, <3>1 DEF CardFields
      <3> QED BY <1>1, <2>3, <3>2, <3>3 DEF CardTyped, States, Powered
    <2>4. CASE c = 55
      BY <1>1, <1>3, <2>4, AfterIs DEF P, CardFields, CardTyped
    <2>5. CASE c = 41
      BY <1>1, <1>3, <2>5, AfterIs DEF P, CardFields, CardTyped, States, Powered
    <2>6. CASE c = 2
      BY <1>1, <1>3, <2>6, AfterIs DEF P, CardFields, CardTyped, States, Powered
    <2>7. CASE c = 7
      BY <1>1, <1>3, <2>7, AfterIs, ObeysWhen DEF P, CardFields, CardTyped, States, Powered
    <2>8. CASE c \in {9, 13}
      BY <1>1, <1>2, <1>3, <2>8, AfterIs DEF P
    <2>9. CASE c = 16
      BY <1>1, <1>3, <2>9, AfterIs DEF P, CardFields, CardTyped
    <2>10. CASE c = 51
      BY <1>1, <1>3, <2>10, AfterIs, ObeysWhen DEF P, CardFields, CardTyped, States, Powered
    <2>11. CASE c = 6
      BY <1>1, <1>3, <2>11, AfterIs, ObeysWhen DEF P, CardFields, CardTyped, States, Powered
    <2> QED BY <2>1, <2>2, <2>3, <2>4, <2>5, <2>6, <2>7, <2>8, <2>9, <2>10, <2>11 DEF Cmds
  <1>4. ASSUME NEW k, Fits(k) PROVE Fits(CutShort(k, c))
    <2>1. /\ DOMAIN CutShort(k, c) = CardFields
          /\ \A f \in CardFields \ {"state"} : CutShort(k, c)[f] = k[f]
          /\ CutShort(k, c).state \in {k.state, "tran"}
          /\ CutShort(k, c).state = "tran" => k.state \in {"tran", "data"}
      BY <1>4 DEF CutShort, CardFields
    <2>2. /\ CutShort(k, c).kind = k.kind /\ CutShort(k, c).ver = k.ver /\ CutShort(k, c).rca = k.rca
          /\ CutShort(k, c).width = k.width /\ CutShort(k, c).blklen = k.blklen
      BY <2>1 DEF CardFields
    <2> QED BY <1>4, <2>1, <2>2 DEF CardTyped, States, Powered
  <1> HIDE DEF Fits
  <1>5. Answered(o, c, arg) \/ Missed(o, c, arg)
    BY OutcomeCases
  <1>6. Fits(o.card)
    BY <1>2, <1>3, <1>4, <1>5 DEF Answered, Missed, P
  <1>7. o.cost \in {0, 1} /\ (o.cost = 1 => faults # 0)
    BY <1>5 DEF Answered, Missed
  <1> QED BY <1>6, <1>7 DEF Fits

\* A command that starts no transfer: the fields it leaves.
LEMMA SentFields ==
  ASSUME Shape, Fields, NEW c \in Cmds \ {0}, NEW arg, NEW yes, NEW no, Send(c, arg, yes, no)
  PROVE  /\ drv'.pc \in {yes, no}
         /\ \A f \in DrvFields \ {"pc"} : drv'[f] = drv[f]
         /\ host'.run = host.run /\ host'.port = host.port /\ host'.ready = host.ready
         /\ host'.width = host.width /\ (host.tc => host'.tc) /\ disk' = disk
         /\ CardTyped(card)' /\ card'.kind = card.kind /\ card'.ver = card.ver
         /\ c # 6 => card'.width = card.width
         /\ c # 16 => card'.blklen = card.blklen
         /\ c # 3 => card'.rca = card.rca
         /\ faults' \in 0..MaxFaults /\ hist'.calls = hist.calls /\ hist'.late = hist.late
         /\ faults' = MaxFaults =>
              /\ faults = MaxFaults /\ (hist'.hurt <=> hist.hurt)
              /\ IF Obeys(c, arg) THEN card' \in After(c, arg) /\ (host'.err => host.err)
                                       /\ (~host.err => drv'.pc = yes)
                 ELSE card' = PlainCard(card) /\ (c \notin Forgiven => ~host'.err /\ drv'.pc = no)
  <1>1. PICK o \in Outcomes(c, arg) :
          Issue(o, c) /\ drv' = [drv EXCEPT !.pc = IF o.ok THEN yes ELSE no]
    BY DEF Send
  <1>2. drv'.pc = (IF o.ok THEN yes ELSE no) /\ \A f \in DrvFields \ {"pc"} : drv'[f] = drv[f]
    BY <1>1 DEF Shape
  <1>3. Answered(o, c, arg) \/ Missed(o, c, arg)
    BY OutcomeCases
  <1>4. PICK tc : host' = [host EXCEPT !.err = o.err, !.tc = tc] /\ (host.tc => tc)
    BY <1>1 DEF Issue
  <1>5. /\ host'.run = host.run /\ host'.port = host.port /\ host'.ready = host.ready
        /\ host'.width = host.width /\ host'.err = o.err /\ (host.tc => host'.tc)
    BY <1>4 DEF Shape
  <1>6. /\ card' = o.card /\ disk' = disk /\ faults' = faults - o.cost
        /\ hist' = [hist EXCEPT !.hurt = @ \/ o.cost = 1]
    BY <1>1 DEF Issue
  <1>7. /\ hist'.calls = hist.calls /\ hist'.late = hist.late
        /\ (hist'.hurt <=> hist.hurt \/ o.cost = 1)
    BY <1>6 DEF Shape
  <1>8. /\ CardTyped(o.card) /\ o.card.kind = card.kind /\ o.card.ver = card.ver
        /\ c # 6 => o.card.width = card.width
        /\ c # 16 => o.card.blklen = card.blklen
        /\ c # 3 => o.card.rca = card.rca
        /\ o.cost \in {0, 1} /\ (o.cost = 1 => faults # 0)
    BY OutcomeCards DEF Shape, Fields
  <1>9. MaxFaults \in Nat /\ faults \in 0..MaxFaults
    BY BoundAssumption DEF Fields, Typed
  <1>10. faults' \in 0..MaxFaults /\ (faults' = MaxFaults => faults = MaxFaults /\ o.cost = 0)
    BY <1>6, <1>8, <1>9
  <1>11. ASSUME o.cost = 0
         PROVE  IF Obeys(c, arg) THEN o.card \in After(c, arg) /\ (o.err => host.err) /\ (~host.err => o.ok)
                ELSE o.card = PlainCard(card) /\ (c \notin Forgiven => ~o.err /\ ~o.ok)
    BY <1>3, <1>11 DEF Answered, Missed
  <1>12. CardTyped(card)'
    BY <1>6, <1>8 DEF CardTyped
  <1> QED BY <1>2, <1>5, <1>6, <1>7, <1>8, <1>10, <1>11, <1>12

\* A command that starts a transfer: it has started when the driver goes on.
LEMMA SentDataFields ==
  ASSUME Shape, Fields, NEW c \in Cmds \ ({0} \cup Forgiven), NEW arg, NEW run, NEW yes, NEW no,
         SendData(c, arg, run, yes, no), yes # no
  PROVE  /\ drv' \in {yes, no}
         /\ host'.width = host.width /\ host'.tc = host.tc /\ disk' = disk
         /\ CardTyped(card)' /\ card'.kind = card.kind /\ card'.ver = card.ver
         /\ c # 6 => card'.width = card.width
         /\ c # 16 => card'.blklen = card.blklen
         /\ c # 3 => card'.rca = card.rca
         /\ faults' \in 0..MaxFaults /\ hist'.calls = hist.calls /\ hist'.late = hist.late
         /\ \/ host'.run = host.run /\ host'.port = host.port /\ host'.ready = host.ready /\ drv' = no
            \/ /\ Obeys(c, arg) /\ host'.run = run /\ host'.port = <<>>
               /\ (host'.ready <=> run.dir = "write" /\ run.left > 0)
         /\ drv' = yes => card' \in After(c, arg)
         /\ faults' = MaxFaults =>
              /\ faults = MaxFaults /\ (hist'.hurt <=> hist.hurt)
              /\ IF Obeys(c, arg) THEN card' \in After(c, arg) /\ (~host.err => ~host'.err /\ drv' = yes)
                 ELSE card' = PlainCard(card) /\ ~host'.err /\ drv' = no
  <1>1. PICK o \in Outcomes(c, arg) :
          /\ card' = o.card /\ faults' = faults - o.cost
          /\ hist' = [hist EXCEPT !.hurt = @ \/ o.cost = 1]
          /\ host' = IF o.answered THEN [host EXCEPT !.err = o.err, !.run = run, !.port = <<>>,
                                                     !.ready = run.dir = "write" /\ run.left > 0]
                     ELSE [host EXCEPT !.err = o.err]
          /\ drv' = IF o.ok THEN yes ELSE no
          /\ disk' = disk
    BY DEF SendData
  <1>2. Answered(o, c, arg) \/ Missed(o, c, arg)
    BY OutcomeCases
  <1>3. c \notin Forgiven
    OBVIOUS
  <1>4. CASE Answered(o, c, arg)
    <2>1. o.answered /\ Obeys(c, arg) /\ o.card \in After(c, arg) /\ o.cost = 0 /\ ~o.err
          /\ (o.ok <=> ~host.err)
      BY <1>3, <1>4 DEF Answered
    <2>2. /\ host'.run = run /\ host'.port = <<>> /\ (host'.ready <=> run.dir = "write" /\ run.left > 0)
          /\ host'.width = host.width /\ host'.tc = host.tc /\ host'.err = o.err
      BY <1>1, <2>1 DEF Shape
    <2> HIDE DEF Answered, Missed
    <2>3. /\ hist'.calls = hist.calls /\ hist'.late = hist.late
          /\ (hist'.hurt <=> hist.hurt)
      <3>1. o.cost # 1
        BY <2>1
      <3> QED BY <1>1, <3>1 DEF Shape
    <2>4. /\ CardTyped(o.card) /\ o.card.kind = card.kind /\ o.card.ver = card.ver
          /\ c # 6 => o.card.width = card.width
          /\ c # 16 => o.card.blklen = card.blklen
          /\ c # 3 => o.card.rca = card.rca
      BY OutcomeCards DEF Shape, Fields
    <2>5. faults' = faults /\ faults \in 0..MaxFaults
      BY <1>1, <2>1, BoundAssumption DEF Fields, Typed
    <2>6. CardTyped(card)'
      BY <1>1, <2>4 DEF CardTyped
    <2> QED BY <1>1, <2>1, <2>2, <2>3, <2>4, <2>5, <2>6
  <1>5. CASE Missed(o, c, arg)
    <2>1. /\ ~o.answered /\ ~o.ok /\ ~o.err /\ o.cost \in {0, 1}
          /\ IF o.cost = 0 THEN ~Obeys(c, arg) /\ o.card = PlainCard(card) ELSE faults # 0
      BY <1>3, <1>5 DEF Missed
    <2>2. /\ host'.run = host.run /\ host'.port = host.port /\ host'.ready = host.ready
          /\ host'.width = host.width /\ host'.tc = host.tc /\ host'.err = o.err
      BY <1>1, <2>1 DEF Shape
    <2>3. /\ hist'.calls = hist.calls /\ hist'.late = hist.late
          /\ (hist'.hurt <=> hist.hurt \/ o.cost = 1)
      BY <1>1 DEF Shape
    <2>4. /\ CardTyped(o.card) /\ o.card.kind = card.kind /\ o.card.ver = card.ver
          /\ c # 6 => o.card.width = card.width
          /\ c # 16 => o.card.blklen = card.blklen
          /\ c # 3 => o.card.rca = card.rca
      BY OutcomeCards DEF Shape, Fields
    <2>5. MaxFaults \in Nat /\ faults \in 0..MaxFaults
      BY BoundAssumption DEF Fields, Typed
    <2>6. faults' \in 0..MaxFaults /\ (faults' = MaxFaults => faults = MaxFaults /\ o.cost = 0)
      BY <1>1, <2>1, <2>5
    <2>7. o.cost = 0 => o.cost # 1
      OBVIOUS
    <2>8. CardTyped(card)'
      BY <1>1, <2>4 DEF CardTyped
    <2> QED BY <1>1, <2>1, <2>2, <2>3, <2>4, <2>6, <2>7, <2>8
  <1> QED BY <1>2, <1>4, <1>5

LEMMA SentKeepsFields ==
  ASSUME SdInv, Fields, NEW c \in Cmds \ {0, 3}, NEW arg, NEW yes, NEW no, Send(c, arg, yes, no),
         \A pc \in {yes, no} :
           \/ drv.pc = "cmd55" /\ pc = "cmd41"
           \/ drv.pc = "cmd2" /\ pc = "cmd3"
           \/ pc \notin First \cup {"cmd2", "cmd3", "command"} \cup Moving
  PROVE  Fields'
  <1>1. /\ drv'.pc \in {yes, no}
        /\ \A f \in DrvFields \ {"pc"} : drv'[f] = drv[f]
        /\ host'.run = host.run /\ host'.port = host.port /\ host'.width = host.width
        /\ disk' = disk /\ CardTyped(card)' /\ card'.kind = card.kind
        /\ c # 3 => card'.rca = card.rca
        /\ faults' \in 0..MaxFaults /\ hist'.calls = hist.calls
    BY SentFields DEF SdInv
  <1>2. /\ drv'.mode = drv.mode /\ drv'.rca = drv.rca /\ drv'.ver = drv.ver /\ drv'.start = drv.start
        /\ drv'.blocks = drv.blocks /\ drv'.remain = drv.remain /\ drv'.ret = drv.ret
        /\ drv'.ocr = drv.ocr /\ drv'.tries = drv.tries /\ drv'.op = drv.op /\ drv'.buf = drv.buf
    BY <1>1 DEF DrvFields
  <1>3. Typed'
    BY <1>1, <1>2 DEF Fields, Typed, First, Moving
  <1>4. Registers'
    BY <1>1, <1>2 DEF Fields, Registers, Moving
  <1>5. Identified'
    BY <1>1, <1>2 DEF Fields, Identified, First
  <1> QED BY <1>1, <1>3, <1>4, <1>5 DEF Fields

LEMMA SendsKeepFields ==
  ASSUME SdInv, Fields,
         Cmd55 \/ Cmd2 \/ Cmd9 \/ Cmd7 \/ Scr16 \/ Scr55 \/ Speed16 \/ Width55 \/ Cmd16
  PROVE  Fields'
  <1> USE DEF Cmds, First, Moving
  <1>1. CASE Cmd55
    BY <1>1, SentKeepsFields DEF Cmd55
  <1>2. CASE Cmd2
    BY <1>2, SentKeepsFields DEF Cmd2
  <1>3. CASE Cmd9
    BY <1>3, SentKeepsFields DEF Cmd9
  <1>4. CASE Cmd7
    BY <1>4, SentKeepsFields DEF Cmd7
  <1>5. CASE Scr16
    BY <1>5, SentKeepsFields DEF Scr16
  <1>6. CASE Scr55
    BY <1>6, SentKeepsFields DEF Scr55
  <1>7. CASE Speed16
    BY <1>7, SentKeepsFields DEF Speed16
  <1>8. CASE Width55
    BY <1>8, SentKeepsFields DEF Width55
  <1>9. CASE Cmd16
    BY <1>9, SentKeepsFields DEF Cmd16
  <1> QED BY <1>1, <1>2, <1>3, <1>4, <1>5, <1>6, <1>7, <1>8, <1>9

LEMMA FaultsLeft ==
  ASSUME Fields, NEW cost \in {0, 1}, cost = 1 => faults # 0
  PROVE  faults - cost \in 0..MaxFaults
  <1>1. MaxFaults \in Nat /\ faults \in 0..MaxFaults
    BY BoundAssumption DEF Fields, Typed
  <1> QED BY <1>1

LEMMA IdentifyKeepsFields == SdInv /\ Fields /\ Identify => Fields'
  <1> SUFFICES ASSUME SdInv, Fields, Identify PROVE Fields'
    OBVIOUS
  <1>s. Shape /\ drv.pc = "identify" /\ drv.op \in InitOps
    BY DEF SdInv, Identify, OpFits, First
  <1>1. PICK o \in Outcomes(0, 0) : card' = o.card /\ faults' = faults - o.cost
    BY DEF Identify
  <1>2. CardTyped(o.card) /\ o.card.kind = card.kind /\ o.cost \in {0, 1} /\ (o.cost = 1 => faults # 0)
    BY <1>s, OutcomeCards DEF Shape, Fields, Cmds
  <1>3. /\ host'.run = host.run /\ host'.port = host.port /\ host'.width = 1
        /\ drv'.pc = "cmd55" /\ drv'.ocr = 0 /\ drv'.mode = drv.mode /\ drv'.rca = drv.rca
        /\ drv'.ver = drv.ver /\ drv'.start = drv.start /\ drv'.blocks = drv.blocks
        /\ drv'.remain = drv.remain /\ drv'.ret = drv.ret /\ drv'.tries = drv.tries
        /\ drv'.op = drv.op /\ drv'.buf = drv.buf
        /\ disk' = disk /\ hist' = hist
    BY <1>s DEF Identify, Shape, DrvFields
  <1>4. faults' \in 0..MaxFaults
    BY <1>1, <1>2, FaultsLeft
  <1>5. Typed'
    BY <1>3, <1>4, <1>s, BoundAssumption DEF Fields, Typed, First
  <1>6. Registers' /\ Identified'
    BY <1>1, <1>2, <1>3, <1>s DEF Fields, Registers, Identified, First
  <1>7. CardTyped(card)'
    BY <1>1, <1>2 DEF CardTyped
  <1> QED BY <1>5, <1>6, <1>7 DEF Fields

LEMMA Cmd41KeepsFields == SdInv /\ Fields /\ Cmd41 => Fields'
  <1> SUFFICES ASSUME SdInv, Fields, Cmd41 PROVE Fields'
    OBVIOUS
  <1>s. Shape /\ drv.pc = "cmd41" /\ drv.op \in InitOps
    BY DEF SdInv, Cmd41, OpFits, First
  <1>1. PICK o \in Outcomes(41, 0) :
          LET up == o.answered /\ o.card.state = "ready"
              last == drv.ocr + 1 = OcrTries
              stop == drv.tries + 1 > IdentifyTries
          IN /\ Issue([o EXCEPT !.err = IF up \/ last THEN FALSE ELSE @], 41)
             /\ drv' = IF up THEN [drv EXCEPT !.pc = "cmd2", !.mode = card.kind]
                       ELSE IF ~last THEN [drv EXCEPT !.pc = "cmd55", !.ocr = @ + 1]
                       ELSE [drv EXCEPT !.pc = IF stop THEN "failed" ELSE "identify",
                                       !.tries = @ + 1]
    BY DEF Cmd41
  <1>2. /\ DOMAIN o = {"card", "answered", "cost", "ok", "err"}
        /\ CardTyped(o.card) /\ o.card.kind = card.kind /\ o.cost \in {0, 1}
        /\ o.card.rca = card.rca
        /\ o.cost = 1 => faults # 0
    BY <1>s, OutcomeCases, OutcomeCards DEF Shape, Fields, Cmds
  <1>3. PICK b : Issue([o EXCEPT !.err = b], 41)
    BY <1>1
  <1>4. /\ card' = o.card /\ faults' = faults - o.cost /\ host'.run = host.run
        /\ host'.port = host.port /\ host'.width = host.width /\ disk' = disk
        /\ hist'.calls = hist.calls
    BY <1>s, <1>2, <1>3 DEF Issue, Shape
  <1>5. faults' \in 0..MaxFaults
    BY <1>2, <1>4, FaultsLeft
  <1>6. /\ drv'.rca = drv.rca /\ drv'.ver = drv.ver /\ drv'.start = drv.start
        /\ drv'.blocks = drv.blocks /\ drv'.remain = drv.remain /\ drv'.ret = drv.ret
        /\ drv'.op = drv.op /\ drv'.buf = drv.buf
        /\ \/ drv'.pc = "cmd2" /\ drv'.mode = card.kind /\ drv'.ocr = drv.ocr /\ drv'.tries = drv.tries
           \/ /\ drv'.pc = "cmd55" /\ drv'.mode = drv.mode /\ drv'.tries = drv.tries
              /\ drv'.ocr = drv.ocr + 1 /\ drv'.ocr # OcrTries
           \/ /\ drv'.pc = "failed" /\ drv'.mode = drv.mode /\ drv'.ocr = drv.ocr
              /\ drv'.tries = drv.tries + 1
           \/ /\ drv'.pc = "identify" /\ drv'.mode = drv.mode /\ drv'.ocr = drv.ocr
              /\ drv'.tries = drv.tries + 1 /\ ~(drv'.tries > IdentifyTries)
    BY <1>s, <1>1 DEF Shape, DrvFields
  <1>7. /\ drv.ocr \in Nat /\ drv.ocr < OcrTries /\ OcrTries \in Nat
        /\ drv.tries \in Nat /\ drv.tries <= IdentifyTries /\ IdentifyTries \in Nat
    BY <1>s, BoundAssumption DEF Fields, Typed, First
  <1>8. /\ drv'.ocr \in 0..OcrTries /\ (drv'.pc = "cmd55" => drv'.ocr < OcrTries)
        /\ drv'.tries \in 0..(IdentifyTries + 1)
        /\ drv'.pc \in First \cup {"cmd2"} => drv'.tries <= IdentifyTries
    BY <1>6, <1>7 DEF First
  <1>9. Typed'
    BY <1>2, <1>4, <1>5, <1>6, <1>8 DEF Fields, Typed, First, CardTyped
  <1>10. Registers' /\ Identified'
    BY <1>2, <1>4, <1>6, <1>s DEF Fields, Registers, Identified, First
  <1>11. CardTyped(card)'
    BY <1>2, <1>4 DEF CardTyped
  <1> QED BY <1>9, <1>10, <1>11 DEF Fields

LEMMA Cmd3KeepsFields == SdInv /\ Fields /\ Cmd3 => Fields'
  <1> SUFFICES ASSUME SdInv, Fields, Cmd3 PROVE Fields'
    OBVIOUS
  <1>s. Shape /\ drv.pc = "cmd3" /\ drv.op \in InitOps
    BY DEF SdInv, Cmd3, OpFits, Named
  <1>1. PICK o \in Outcomes(3, 0), rca \in {Rca, Bogus} :
          Issue(o, 3) /\ drv' = [drv EXCEPT !.pc = "cmd9", !.rca = rca]
    BY DEF Cmd3
  <1>2. CardTyped(o.card) /\ o.card.kind = card.kind /\ o.cost \in {0, 1} /\ (o.cost = 1 => faults # 0)
    BY <1>s, OutcomeCards DEF Shape, Fields, Cmds
  <1>3. /\ card' = o.card /\ faults' = faults - o.cost /\ host'.run = host.run
        /\ host'.port = host.port /\ host'.width = host.width /\ disk' = disk
        /\ hist'.calls = hist.calls
    BY <1>s, <1>1 DEF Issue, Shape
  <1>4. /\ drv'.pc = "cmd9" /\ drv'.rca = rca /\ drv'.mode = drv.mode
        /\ drv'.ver = drv.ver /\ drv'.start = drv.start /\ drv'.blocks = drv.blocks
        /\ drv'.remain = drv.remain /\ drv'.ret = drv.ret /\ drv'.tries = drv.tries
        /\ drv'.op = drv.op /\ drv'.buf = drv.buf /\ drv'.ocr = drv.ocr
    BY <1>s, <1>1 DEF Shape, DrvFields
  <1>5. faults' \in 0..MaxFaults
    BY <1>2, <1>3, FaultsLeft
  <1>6. Typed'
    BY <1>3, <1>4, <1>5 DEF Fields, Typed, First
  <1>7. drv.mode = card.kind
    BY <1>s DEF SdInv, Agreed, First, Ends
  <1>8. Registers' /\ Identified'
    BY <1>2, <1>3, <1>4, <1>7, <1>s DEF Fields, Registers, Identified, First
  <1>9. CardTyped(card)'
    BY <1>2, <1>3 DEF CardTyped
  <1> QED BY <1>6, <1>8, <1>9 DEF Fields

\* A register's block: op is the register.
LEMMA RegisterKeepsFields ==
  ASSUME SdInv, Fields, NEW c \in {51, 6}, NEW op \in {"scr", "switch"},
         NEW no \in {"version", "failed"}, drv.op \in InitOps,
         SendData(c, 0, OneBlock(op), ReadRegister(op), GoTo(no))
  PROVE  Fields'
  <1>s. Shape /\ c \in Cmds \ ({0} \cup Forgiven)
    BY DEF SdInv, Cmds, Forgiven
  <1> DEFINE yes == ReadRegister(op)
             stay == GoTo(no)
  <1>1. /\ yes.pc = "wait" /\ yes.op = op /\ yes.remain = 1 /\ yes.buf = <<>>
        /\ yes.mode = drv.mode /\ yes.rca = drv.rca /\ yes.ver = drv.ver /\ yes.start = drv.start
        /\ yes.blocks = drv.blocks /\ yes.ret = drv.ret /\ yes.ocr = drv.ocr /\ yes.tries = drv.tries
    BY <1>s DEF ReadRegister, Shape, DrvFields
  <1>2. /\ stay.pc = no /\ stay.op = drv.op /\ stay.remain = drv.remain /\ stay.buf = drv.buf
        /\ stay.mode = drv.mode /\ stay.rca = drv.rca /\ stay.ver = drv.ver /\ stay.start = drv.start
        /\ stay.blocks = drv.blocks /\ stay.ret = drv.ret /\ stay.ocr = drv.ocr
        /\ stay.tries = drv.tries
    BY <1>s DEF GoTo, Shape, DrvFields
  <1>3. SendData(c, 0, OneBlock(op), yes, stay) /\ yes # stay
    BY <1>1, <1>2
  <1> HIDE DEF yes, stay
  <1>4. /\ drv' \in {yes, stay} /\ host'.width = host.width /\ disk' = disk
        /\ CardTyped(card)' /\ card'.kind = card.kind /\ card'.rca = card.rca
        /\ faults' \in 0..MaxFaults /\ hist'.calls = hist.calls
        /\ \/ host'.run = host.run /\ host'.port = host.port
           \/ host'.run = OneBlock(op) /\ host'.port = <<>> /\ Obeys(c, 0)
    <2> HIDE DEF SendData
    <2> QED BY <1>s, <1>3, SentDataFields
  <1>5. /\ OneBlock(op).left = 1 /\ OneBlock(op).at = 0
        /\ DOMAIN OneBlock(op) = {"dir", "at", "left", "multi"} /\ 1 \in 0..MaxBlocks
    BY BoundAssumption DEF OneBlock
  <1>6. Typed'
    <2>1. /\ drv'.mode = drv.mode /\ drv'.rca = drv.rca /\ drv'.ver = drv.ver
          /\ drv'.start = drv.start /\ drv'.blocks = drv.blocks /\ drv'.ret = drv.ret
          /\ drv'.ocr = drv.ocr /\ drv'.tries = drv.tries
          /\ \/ drv'.pc = "wait" /\ drv'.remain = 1
             \/ drv'.pc = no /\ drv'.remain = drv.remain
      BY <1>1, <1>2, <1>4
    <2>2. /\ drv'.remain \in 0..MaxBlocks /\ (drv'.pc \in {"wait", "move"} => drv'.remain > 0)
          /\ host'.run.left \in 0..MaxBlocks /\ host'.run.at \in Int
          /\ DOMAIN host'.run = {"dir", "at", "left", "multi"}
          /\ (host'.port = <<>> \/ \E x : host'.port = <<x>>)
      <3>1. /\ drv.remain \in 0..MaxBlocks /\ host.run.left \in 0..MaxBlocks /\ host.run.at \in Int
            /\ DOMAIN host.run = {"dir", "at", "left", "multi"}
            /\ (host.port = <<>> \/ \E x : host.port = <<x>>)
        BY DEF Fields, Typed
      <3>2. /\ drv'.remain \in 0..MaxBlocks /\ (drv'.pc \in {"wait", "move"} => drv'.remain > 0)
        BY <1>5, <2>1, <3>1
      <3>3. CASE host'.run = host.run /\ host'.port = host.port
        BY <3>1, <3>2, <3>3
      <3>4. CASE host'.run = OneBlock(op) /\ host'.port = <<>>
        BY <1>5, <3>2, <3>4
      <3> QED BY <1>4, <3>3, <3>4
    <2>3. drv'.pc \notin First \cup {"cmd55", "cmd41"}
      BY <2>1 DEF First
    <2> QED BY <1>4, <2>1, <2>2, <2>3 DEF Fields, Typed
  <1>7. Registers'
    BY <1>1, <1>2, <1>4 DEF Fields, Registers, InitOps
  <1>8. Identified'
    <2>1. Obeys(c, 0) => card.rca = Rca
      BY ObeysWhen DEF Fields, CardTyped, Powered
    <2> QED BY <1>1, <1>2, <1>4, <2>1 DEF Fields, Identified, First
  <1> QED BY <1>4, <1>6, <1>7, <1>8 DEF Fields

LEMMA RegistersKeepFields == SdInv /\ Fields /\ (Scr51 \/ Speed6) => Fields'
  <1> SUFFICES ASSUME SdInv, Fields, Scr51 \/ Speed6 PROVE Fields'
    OBVIOUS
  <1>1. drv.op \in InitOps
    BY DEF SdInv, OpFits, Scr51, Speed6, Named, Addressed
  <1> QED BY <1>1, RegisterKeepsFields DEF Scr51, Speed6

LEMMA VersionKeepsFields == SdInv /\ Fields /\ Version => Fields'
  <1> SUFFICES ASSUME SdInv, Fields, Version PROVE Fields'
    OBVIOUS
  <1>s. Shape /\ drv.pc = "version"
    BY DEF SdInv, Version
  <1>1. /\ drv'.pc \in {"speed16", "assert"} /\ drv'.op = drv.op /\ drv'.remain = drv.remain
        /\ drv'.buf = drv.buf /\ drv'.mode = drv.mode /\ drv'.rca = drv.rca /\ drv'.ver = drv.ver
        /\ drv'.start = drv.start /\ drv'.blocks = drv.blocks /\ drv'.ret = drv.ret
        /\ drv'.ocr = drv.ocr /\ drv'.tries = drv.tries
        /\ host' = host /\ card' = card /\ disk' = disk /\ faults' = faults /\ hist' = hist
    BY <1>s DEF Version, GoTo, Shape, DrvFields
  <1>2. Typed' /\ CardTyped(card)'
    BY <1>1 DEF Fields, Typed, CardTyped, First
  <1>3. Registers' /\ Identified'
    BY <1>1 DEF Fields, Registers, Identified, First
  <1> QED BY <1>2, <1>3 DEF Fields

LEMMA Width6KeepsFields == SdInv /\ Fields /\ Width6 => Fields'
  <1> SUFFICES ASSUME SdInv, Fields, Width6 PROVE Fields'
    OBVIOUS
  <1>s. Shape /\ drv.pc = "width6" /\ drv.op \in InitOps
    BY DEF SdInv, Width6, OpFits, Named, Addressed
  <1>1. PICK o \in Outcomes(6, 4) :
          /\ card' = [o.card EXCEPT !.state = IF @ = "data" THEN "tran" ELSE @]
          /\ faults' = faults - o.cost
          /\ host' = [host EXCEPT !.err = o.err, !.width = IF o.ok THEN 4 ELSE @]
          /\ drv' = IF o.ok THEN [drv EXCEPT !.pc = "cmd13", !.op = "init"] ELSE GoTo("failed")
          /\ disk' = disk /\ hist' = hist
    BY DEF Width6
  <1>2. /\ DOMAIN o.card = CardFields /\ CardTyped(o.card) /\ o.card.kind = card.kind
        /\ o.card.rca = card.rca
        /\ o.cost \in {0, 1} /\ (o.cost = 1 => faults # 0)
    BY <1>s, OutcomeCards DEF Shape, Fields, Cmds
  <1>3. /\ card'.kind = o.card.kind /\ card'.ver = o.card.ver /\ card'.rca = o.card.rca
        /\ card'.state \in {o.card.state, "tran"} /\ (card'.state = "tran" => o.card.state \in {"data", "tran"})
    BY <1>1, <1>2 DEF CardFields
  <1>4. CardTyped(card)'
    BY <1>2, <1>3 DEF CardTyped, States, Powered
  <1>5. /\ drv'.pc \in {"cmd13", "failed"} /\ drv'.op \in InitOps /\ drv'.remain = drv.remain
        /\ (drv'.op = "init" \/ drv'.op = drv.op)
        /\ drv'.buf = drv.buf /\ drv'.mode = drv.mode /\ drv'.rca = drv.rca /\ drv'.ver = drv.ver
        /\ drv'.start = drv.start /\ drv'.blocks = drv.blocks /\ drv'.ret = drv.ret
        /\ drv'.ocr = drv.ocr /\ drv'.tries = drv.tries
    BY <1>1, <1>s DEF GoTo, Shape, DrvFields, InitOps
  <1>6. host'.run = host.run /\ host'.port = host.port /\ host'.width \in {4, host.width}
    BY <1>1, <1>s DEF Shape
  <1>7. faults' \in 0..MaxFaults
    BY <1>1, <1>2, FaultsLeft
  <1>8. Typed'
    BY <1>1, <1>5, <1>6, <1>7 DEF Fields, Typed, First
  <1>9. Registers' /\ Identified'
    BY <1>2, <1>3, <1>5, <1>6, <1>s DEF Fields, Registers, Identified, First
  <1> QED BY <1>4, <1>8, <1>9 DEF Fields

\* CMD13 is answered under the address only, which is none before CMD3.
LEMMA Cmd13KeepsFields == SdInv /\ Fields /\ Cmd13 => Fields'
  <1> SUFFICES ASSUME SdInv, Fields, Cmd13 PROVE Fields'
    OBVIOUS
  <1>s. Shape /\ drv.pc = "cmd13"
    BY DEF SdInv, Cmd13
  <1>1. PICK o \in Outcomes(13, drv.rca) :
          /\ Issue(o, 13)
          /\ drv' = IF o.ok /\ o.card.state \in {"rcv", "prg"} THEN drv
                    ELSE IF o.ok /\ o.card.state = "tran"
                         THEN GoTo(IF drv.op = "init" THEN "cmd16" ELSE "command")
                    ELSE IF drv.op = "init" THEN GoTo("failed") ELSE Return(3)
    BY DEF Cmd13
  <1>2. /\ CardTyped(o.card) /\ o.card.kind = card.kind /\ o.cost \in {0, 1}
        /\ o.card.rca = card.rca
        /\ o.cost = 1 => faults # 0
    BY <1>s, OutcomeCards DEF Shape, Fields, Cmds
  <1>3. /\ card' = o.card /\ faults' = faults - o.cost /\ host'.run = host.run
        /\ host'.port = host.port /\ host'.width = host.width /\ disk' = disk
        /\ hist'.calls = hist.calls
    BY <1>s, <1>1 DEF Issue, Shape
  <1>4. /\ drv'.op = drv.op /\ drv'.remain = drv.remain
        /\ drv'.buf = drv.buf /\ drv'.mode = drv.mode /\ drv'.rca = drv.rca /\ drv'.ver = drv.ver
        /\ drv'.start = drv.start /\ drv'.blocks = drv.blocks /\ drv'.ret \in {drv.ret, 3}
        /\ drv'.ocr = drv.ocr /\ drv'.tries = drv.tries
        /\ drv'.pc \in {"cmd13", "cmd16", "command", "failed", "returned"}
        /\ drv'.pc = "command" => o.ok /\ o.card.state = "tran"
    BY <1>s, <1>1 DEF GoTo, Return, Shape, DrvFields
  <1>5. o.ok => drv.rca # 0
    <2>1. o.ok => Obeys(13, drv.rca)
      <3>1. 13 \in Cmds /\ 13 \notin Forgiven /\ 13 # 0
        BY DEF Cmds, Forgiven
      <3> QED BY <3>1, OutcomeCases DEF Answered, Missed
    <2>2. Obeys(13, drv.rca) => drv.rca = card.rca /\ card.state \in Powered
      BY DEF Obeys, Selected, Powered
    <2> QED BY <2>1, <2>2 DEF Fields, CardTyped, Rca
  <1>6. faults' \in 0..MaxFaults
    BY <1>2, <1>3, FaultsLeft
  <1>7. Typed'
    BY <1>3, <1>4, <1>6 DEF Fields, Typed, First
  <1>8. Registers' /\ Identified'
    BY <1>2, <1>3, <1>4, <1>5 DEF Fields, Registers, Identified, First
  <1>9. CardTyped(card)'
    BY <1>2, <1>3 DEF CardTyped
  <1> QED BY <1>7, <1>8, <1>9 DEF Fields

\* Both ends count the blocks of the card from the same one.
LEMMA AddressIs ==
  ASSUME Fields, drv.pc = "command" PROVE Block(Address) = drv.start
  <1>1. drv.mode = card.kind /\ card.kind \in {"byte", "block"} /\ drv.start \in Nat
    BY DEF Fields, Identified, Typed, CardTyped
  <1>2. \A s \in Nat : (s * 512) \div 512 = s
    OBVIOUS
  <1> QED BY <1>1, <1>2 DEF Block, Address, BlockSize

\* What the data command of a call is and does.
LEMMA CommandIs ==
  ASSUME SdInv, Fields, Command
  PROVE  \E c \in {17, 18, 24, 25} :
           LET run == [dir |-> drv.op, at |-> drv.start, left |-> drv.blocks,
                       multi |-> ~(drv.blocks = 1)] IN
           /\ drv.op \in {"read", "write"} /\ (c \in {17, 18} <=> drv.op = "read")
           /\ drv'.op = drv.op /\ drv'.remain = drv.remain /\ drv'.buf = drv.buf
           /\ drv'.mode = drv.mode /\ drv'.rca = drv.rca /\ drv'.ver = drv.ver
           /\ drv'.start = drv.start /\ drv'.blocks = drv.blocks /\ drv'.ocr = drv.ocr
           /\ drv'.tries = drv.tries
           /\ \/ drv'.pc = FirstWait /\ drv'.ret = drv.ret
              \/ drv'.pc = "returned" /\ drv'.ret \in {4, 5}
           /\ host'.width = host.width /\ host'.tc = host.tc /\ disk' = disk
           /\ CardTyped(card)' /\ card'.kind = card.kind /\ card'.ver = card.ver
           /\ card'.width = card.width /\ card'.blklen = card.blklen /\ card'.rca = card.rca
           /\ faults' \in 0..MaxFaults /\ hist'.calls = hist.calls /\ hist'.late = hist.late
           /\ \/ /\ host'.run = host.run /\ host'.port = host.port /\ host'.ready = host.ready
                 /\ drv'.pc = "returned"
              \/ /\ card.state = "tran" /\ host'.run = run /\ host'.port = <<>>
                 /\ (host'.ready <=> drv.op = "write" /\ drv.blocks > 0)
           /\ drv'.pc # "returned" => card'.state = IF drv.op = "read" THEN "data" ELSE "rcv"
           /\ faults' = MaxFaults =>
                /\ faults = MaxFaults /\ (hist'.hurt <=> hist.hurt)
                /\ ~host.err => ~host'.err
  <1>s. Shape /\ drv.pc = "command" /\ drv.op \in {"read", "write"}
    BY DEF SdInv, OpFits, Command
  <1> DEFINE c == CASE drv.op = "write" /\ drv.blocks = 1 -> 24
                    [] drv.op = "write" /\ ~(drv.blocks = 1) -> 25
                    [] ~(drv.op = "write") /\ drv.blocks = 1 -> 17 [] OTHER -> 18
             at == Block(Address)
             run == [dir |-> drv.op, at |-> at, left |-> drv.blocks,
                     multi |-> ~(drv.blocks = 1)]
             no == Return(IF drv.blocks = 1 THEN 4 ELSE 5)
             yes == GoTo(FirstWait)
  <1>1. SendData(c, Address, run, yes, no)
    BY DEF Command
  <1>2. c \in {17, 18, 24, 25} /\ (c \in {17, 18} <=> drv.op = "read")
    BY <1>s
  <1>3. at = drv.start
    BY <1>s, AddressIs
  <1>4. /\ yes.op = drv.op /\ yes.remain = drv.remain /\ yes.buf = drv.buf
        /\ yes.mode = drv.mode /\ yes.rca = drv.rca /\ yes.ver = drv.ver
        /\ yes.start = drv.start /\ yes.blocks = drv.blocks /\ yes.ocr = drv.ocr
        /\ yes.tries = drv.tries /\ yes.pc = FirstWait /\ yes.ret = drv.ret
    BY <1>s DEF Shape, DrvFields, GoTo
  <1>5. /\ no.op = drv.op /\ no.remain = drv.remain /\ no.buf = drv.buf
        /\ no.mode = drv.mode /\ no.rca = drv.rca /\ no.ver = drv.ver
        /\ no.start = drv.start /\ no.blocks = drv.blocks /\ no.ocr = drv.ocr
        /\ no.tries = drv.tries /\ no.pc = "returned" /\ no.ret \in {4, 5}
    BY <1>s DEF Shape, DrvFields, Return
  <1>6. FirstWait \in {"wait", "complete"}
    BY DEF FirstWait
  <1>7. run.dir = drv.op /\ run.left = drv.blocks
    OBVIOUS
  <1> HIDE DEF yes, no, run, c, at
  <1>8. yes # no
    BY <1>4, <1>5, <1>6
  <1>9. c \in Cmds \ ({0} \cup Forgiven) /\ c # 6 /\ c # 16 /\ c # 3
    BY <1>2 DEF Cmds, Forgiven
  <1>10. /\ drv' \in {yes, no}
         /\ host'.width = host.width /\ host'.tc = host.tc /\ disk' = disk
         /\ CardTyped(card)' /\ card'.kind = card.kind /\ card'.ver = card.ver
         /\ card'.width = card.width /\ card'.blklen = card.blklen /\ card'.rca = card.rca
         /\ faults' \in 0..MaxFaults /\ hist'.calls = hist.calls /\ hist'.late = hist.late
         /\ \/ host'.run = host.run /\ host'.port = host.port /\ host'.ready = host.ready /\ drv' = no
            \/ /\ Obeys(c, Address) /\ host'.run = run /\ host'.port = <<>>
               /\ (host'.ready <=> run.dir = "write" /\ run.left > 0)
         /\ drv' = yes => card' \in After(c, Address)
         /\ faults' = MaxFaults =>
              /\ faults = MaxFaults /\ (hist'.hurt <=> hist.hurt)
              /\ IF Obeys(c, Address)
                 THEN card' \in After(c, Address) /\ (~host.err => ~host'.err /\ drv' = yes)
                 ELSE card' = PlainCard(card) /\ ~host'.err /\ drv' = no
    <2> HIDE DEF SendData
    <2> QED BY <1>s, <1>1, <1>8, <1>9, SentDataFields
  <1>11. Obeys(c, Address) => card.state = "tran"
    BY <1>2, ObeysWhen
  <1>12. card' \in After(c, Address) => card'.state = IF drv.op = "read" THEN "data" ELSE "rcv"
    <2>1. DOMAIN PlainCard(card) = CardFields
      BY <1>s DEF Shape, PlainCard
    <2> QED BY <1>2, <1>s, <2>1, AfterCall DEF CardFields
  <1>13. run = [dir |-> drv.op, at |-> drv.start, left |-> drv.blocks, multi |-> ~(drv.blocks = 1)]
    BY <1>3 DEF run
  <1>14. /\ drv'.op = drv.op /\ drv'.remain = drv.remain /\ drv'.buf = drv.buf
         /\ drv'.mode = drv.mode /\ drv'.rca = drv.rca /\ drv'.ver = drv.ver
         /\ drv'.start = drv.start /\ drv'.blocks = drv.blocks /\ drv'.ocr = drv.ocr
         /\ drv'.tries = drv.tries
         /\ \/ drv'.pc = FirstWait /\ drv'.ret = drv.ret
            \/ drv'.pc = "returned" /\ drv'.ret \in {4, 5}
         /\ drv' = no => drv'.pc = "returned"
         /\ drv'.pc # "returned" => drv' = yes
    BY <1>4, <1>5, <1>10
  <1>15. \/ /\ host'.run = host.run /\ host'.port = host.port /\ host'.ready = host.ready
            /\ drv'.pc = "returned"
         \/ /\ card.state = "tran" /\ host'.run = run /\ host'.port = <<>>
            /\ (host'.ready <=> drv.op = "write" /\ drv.blocks > 0)
    BY <1>7, <1>10, <1>11, <1>14
  <1>16. drv'.pc # "returned" => card'.state = IF drv.op = "read" THEN "data" ELSE "rcv"
    BY <1>10, <1>12, <1>14
  <1> QED BY <1>2, <1>s, <1>10, <1>13, <1>14, <1>15, <1>16

LEMMA CommandKeepsFields == SdInv /\ Fields /\ Command => Fields'
  <1> SUFFICES ASSUME SdInv, Fields, Command PROVE Fields'
    OBVIOUS
  <1> DEFINE run == [dir |-> drv.op, at |-> drv.start, left |-> drv.blocks,
                     multi |-> ~(drv.blocks = 1)]
  <1>1. /\ drv.op \in {"read", "write"} /\ drv'.op = drv.op /\ drv'.remain = drv.remain
        /\ drv'.mode = drv.mode /\ drv'.rca = drv.rca /\ drv'.ver = drv.ver
        /\ drv'.start = drv.start /\ drv'.blocks = drv.blocks /\ drv'.ocr = drv.ocr
        /\ drv'.tries = drv.tries
        /\ \/ drv'.pc = FirstWait /\ drv'.ret = drv.ret
           \/ drv'.pc = "returned" /\ drv'.ret \in {4, 5}
        /\ host'.width = host.width /\ disk' = disk
        /\ CardTyped(card)' /\ card'.kind = card.kind /\ card'.rca = card.rca
        /\ faults' \in 0..MaxFaults /\ hist'.calls = hist.calls
        /\ \/ host'.run = host.run /\ host'.port = host.port
           \/ card.state = "tran" /\ host'.run = run /\ host'.port = <<>>
    BY CommandIs
  <1>2. /\ run.left \in 0..MaxBlocks /\ run.at \in Int /\ DOMAIN run = {"dir", "at", "left", "multi"}
    BY DEF Fields, Typed
  <1> HIDE DEF run
  <1>3. drv'.pc \in {"wait", "move"} => drv.remain > 0
    BY <1>1 DEF FirstWait, Fields, Typed
  <1>4. drv'.pc \notin First \cup {"cmd2", "cmd3", "command"}
    BY <1>1 DEF First, FirstWait
  <1>5. Typed'
    BY <1>1, <1>2, <1>3, <1>4 DEF Fields, Typed, First
  <1>6. drv.op \notin InitOps
    BY <1>1 DEF InitOps
  <1>7. Registers'
    BY <1>1, <1>6 DEF Registers, InitOps
  <1>8. Identified'
    BY <1>1, <1>4 DEF Fields, Identified, CardTyped, Powered
  <1> QED BY <1>1, <1>5, <1>7, <1>8 DEF Fields

LEMMA WaitBufferKeepsFields == SdInv /\ Fields /\ (WaitBuffer \/ WaitBufferRunsOut) => Fields'
  <1> SUFFICES ASSUME SdInv, Fields, WaitBuffer \/ WaitBufferRunsOut PROVE Fields'
    OBVIOUS
  <1>s. Shape /\ drv.pc = "wait"
    BY DEF SdInv, WaitBuffer, WaitBufferRunsOut
  <1>1. /\ drv'.pc = "move" /\ drv'.op = drv.op /\ drv'.remain = drv.remain /\ drv'.buf = drv.buf
        /\ drv'.mode = drv.mode /\ drv'.rca = drv.rca /\ drv'.ver = drv.ver
        /\ drv'.start = drv.start /\ drv'.blocks = drv.blocks /\ drv'.ocr = drv.ocr
        /\ drv'.tries = drv.tries /\ drv'.ret = drv.ret
        /\ host'.run = host.run /\ host'.port = host.port /\ host'.width = host.width
        /\ card' = card /\ disk' = disk /\ faults' = faults /\ hist'.calls = hist.calls
    BY <1>s DEF WaitBuffer, WaitBufferRunsOut, GoTo, Shape, DrvFields
  <1>2. Typed' /\ CardTyped(card)'
    BY <1>1, <1>s DEF Fields, Typed, CardTyped, First
  <1>3. Registers' /\ Identified'
    BY <1>1, <1>s DEF Fields, Registers, Identified, First
  <1> QED BY <1>2, <1>3 DEF Fields

LEMMA MoveBlockKeepsFields == SdInv /\ Fields /\ MoveBlock => Fields'
  <1> SUFFICES ASSUME SdInv, Fields, MoveBlock PROVE Fields'
    OBVIOUS
  <1>s. Shape /\ drv.pc = "move" /\ drv.op \in {"scr", "switch", "read", "write"}
    BY DEF SdInv, MoveBlock, OpFits
  <1> DEFINE left == drv.remain - 1
  <1>r. drv.remain \in Nat /\ drv.remain > 0 /\ drv.remain <= MaxBlocks /\ MaxBlocks \in Nat
    BY <1>s, BoundAssumption DEF Fields, Typed
  <1>1. left \in 0..MaxBlocks /\ (left # 0 => left > 0) /\ (drv.remain = 1 => left = 0)
    BY <1>r
  <1> HIDE DEF left
  <1>2. /\ drv'.pc = (IF left = 0 THEN "complete" ELSE "wait") /\ drv'.remain = left
        /\ drv'.op = drv.op /\ drv'.mode = drv.mode /\ drv'.rca = drv.rca /\ drv'.ver = drv.ver
        /\ drv'.start = drv.start /\ drv'.blocks = drv.blocks /\ drv'.ocr = drv.ocr
        /\ drv'.tries = drv.tries /\ drv'.ret = drv.ret
        /\ drv.op # "write" => drv'.buf = Append(drv.buf, IF host.port = <<>> THEN Stale ELSE host.port[1])
    BY <1>s DEF MoveBlock, Shape, DrvFields, left
  <1>3. /\ host'.run = host.run /\ host'.width = host.width
        /\ (host'.port = <<>> \/ \E x : host'.port = <<x>>)
        /\ drv.op # "write" => host'.port = <<>>
        /\ card' = card /\ disk' = disk /\ faults' = faults /\ hist' = hist
    BY <1>s DEF MoveBlock, Shape, Fields, Typed
  <1>4. Typed' /\ CardTyped(card)'
    BY <1>1, <1>2, <1>3 DEF Fields, Typed, CardTyped, First
  <1>5. Registers'
    <2>1. ASSUME drv.op = "scr"
          PROVE  \E x \in RegisterValues \cup {Stale} : drv'.buf = <<x>>
      <3>1. drv.buf = <<>> /\ (host.port = <<>> \/ \E x \in RegisterValues : host.port = <<x>>)
        BY <1>s, <2>1 DEF Fields, Registers, InitOps
      <3>2. PICK x \in RegisterValues \cup {Stale} :
              x = IF host.port = <<>> THEN Stale ELSE host.port[1]
        BY <3>1
      <3>3. drv'.buf = Append(<<>>, x)
        BY <1>2, <2>1, <3>1, <3>2
      <3> QED BY <3>3
    <2>2. drv.op \in {"scr", "switch"} => left = 0
      BY <1>1, <1>s DEF Fields, Registers
    <2> QED BY <1>2, <1>3, <2>1, <2>2 DEF Registers, InitOps
  <1>6. Identified'
    BY <1>2, <1>3 DEF Fields, Identified, First
  <1> QED BY <1>4, <1>5, <1>6 DEF Fields

LEMMA WaitCompleteKeepsFields == SdInv /\ Fields /\ (WaitComplete \/ WaitCompleteRunsOut) => Fields'
  <1> SUFFICES ASSUME SdInv, Fields, WaitComplete \/ WaitCompleteRunsOut PROVE Fields'
    OBVIOUS
  <1>s. Shape /\ drv.pc = "complete" /\ drv.op \in {"scr", "switch", "read", "write"}
    BY DEF SdInv, WaitComplete, WaitCompleteRunsOut, OpFits
  <1>1. /\ drv' \in Finished
        /\ host'.run = host.run /\ host'.port = host.port /\ host'.width = host.width
        /\ card' = card /\ disk' = disk /\ faults' = faults /\ hist'.calls = hist.calls
    BY <1>s DEF WaitComplete, WaitCompleteRunsOut, Shape
  <1>2. /\ drv'.op = drv.op /\ drv'.remain = drv.remain /\ drv'.buf = drv.buf
        /\ drv'.mode = drv.mode /\ drv'.rca = drv.rca /\ drv'.ver \in 0..2
        /\ drv'.start = drv.start /\ drv'.blocks = drv.blocks /\ drv'.ocr = drv.ocr
        /\ drv'.tries = drv.tries /\ drv'.ret \in {drv.ret, 0, 1}
        /\ drv'.pc \in {"version", "width55", "returned"}
    <2>1. CASE drv.op = "scr"
      <3>1. PICK x \in RegisterValues \cup {Stale} : drv.buf = <<x>>
        BY <1>s, <2>1 DEF Fields, Registers
      <3>2. x \notin {Stale, Damaged} => x[2] \in 0..2
        BY <3>1 DEF RegisterValues, Scr, CardRegister, Stale, Damaged
      <3>3. PICK v \in IF x \in {Stale, Damaged} THEN 0..2 ELSE {x[2]} :
              drv' = [drv EXCEPT !.pc = "version", !.ver = v]
        <4>1. drv.buf[1] = x
          BY <3>1
        <4>2. Finished = {[drv EXCEPT !.pc = "version", !.ver = v] :
                            v \in IF drv.buf[1] \in {Stale, Damaged} THEN 0..2 ELSE {drv.buf[1][2]}}
          BY <2>1 DEF Finished
        <4> QED BY <1>1, <4>1, <4>2
      <3>4. v \in 0..2
        BY <3>2, <3>3
      <3> QED BY <1>s, <3>3, <3>4 DEF Shape, DrvFields
    <2>2. CASE drv.op = "switch"
      BY <1>1, <1>s, <2>2 DEF Finished, GoTo, Shape, DrvFields, Fields, Typed
    <2>3. CASE drv.op \in {"read", "write"}
      <3>1. drv' \in {Return(0), Return(1)}
        BY <1>1, <2>3 DEF Finished
      <3> QED BY <1>s, <3>1 DEF Return, Shape, DrvFields, Fields, Typed
    <2> QED BY <1>s, <2>1, <2>2, <2>3
  <1>3. Typed' /\ CardTyped(card)'
    BY <1>1, <1>2 DEF Fields, Typed, CardTyped, First
  <1>4. Registers' /\ Identified'
    BY <1>1, <1>2 DEF Fields, Registers, Identified, First
  <1> QED BY <1>3, <1>4 DEF Fields

LEMMA MovedIs ==
  ASSUME Fields
  PROVE  /\ Moved.left = host.run.left - 1 /\ Moved.at = host.run.at + 1
         /\ Moved.dir = host.run.dir /\ Moved.multi = host.run.multi
         /\ DOMAIN Moved = {"dir", "at", "left", "multi"}
  BY DEF Fields, Typed, Moved

\* A step of the card: the driver stays, one block at most is in the port, and the
\* card keeps its address.
LEMMA HardwareKeepsFields ==
  ASSUME SdInv, Fields, drv' = drv,
         \/ host'.run = Moved /\ host.run.left > 0
         \/ host'.run \in {host.run, Idle},
         host'.width = host.width,
         host'.port = <<>> \/ \E x : host'.port = <<x>>,
         drv.op \in InitOps => host'.port = <<>> \/ \E x \in RegisterValues : host'.port = <<x>>,
         host.run = Idle => host'.run = Idle,
         \/ card' = card
         \/ card.rca = Rca /\ \E s \in States : card' = [card EXCEPT !.state = s],
         DOMAIN disk' = DOMAIN disk, faults' \in 0..MaxFaults, hist'.calls = hist.calls
  PROVE  Fields'
  <1>2. /\ card'.kind = card.kind /\ card'.ver = card.ver /\ card'.rca = card.rca
        /\ card'.state = card.state \/ (card'.state \in States /\ card.rca = Rca)
    BY DEF SdInv, Shape, CardFields
  <1>3. CardTyped(card)'
    BY <1>2 DEF Fields, CardTyped
  <1>4. /\ host'.run.left \in 0..MaxBlocks /\ host'.run.at \in Int
        /\ DOMAIN host'.run = {"dir", "at", "left", "multi"}
    <2>1. /\ Idle.left = 0 /\ Idle.at = 0 /\ DOMAIN Idle = {"dir", "at", "left", "multi"}
          /\ MaxBlocks \in Nat
      BY BoundAssumption DEF Idle
    <2>2. host.run.left \in 0..MaxBlocks /\ host.run.at \in Int /\ DOMAIN host.run = {"dir", "at", "left", "multi"}
      BY DEF Fields, Typed
    <2>3. CASE host'.run = Moved /\ host.run.left > 0
      BY <2>1, <2>2, <2>3, MovedIs
    <2>4. CASE host'.run \in {host.run, Idle}
      BY <2>1, <2>2, <2>4
    <2> QED BY <2>3, <2>4
  <1>5. Typed'
    BY <1>4 DEF Fields, Typed, First
  <1>6. Registers'
    BY DEF Fields, Registers
  <1>7. Identified'
    BY <1>2 DEF Fields, Identified, First
  <1> QED BY <1>3, <1>5, <1>6, <1>7 DEF Fields

LEMMA CardKeepsFields == SdInv /\ Fields /\ (Hardware \/ Damage) => Fields'
  <1> SUFFICES ASSUME SdInv, Fields, Hardware \/ Damage PROVE Fields'
    OBVIOUS
  <1>s. Shape /\ faults \in 0..MaxFaults /\ MaxFaults \in Nat /\ card.state \in States
    BY BoundAssumption DEF SdInv, Fields, Typed, CardTyped
  <1>i. Idle.left = 0
    BY DEF Idle
  <1>r. host.run # Idle => card.rca = Rca
    BY DEF Fields, Identified
  <1>t. "tran" \in States /\ "prg" \in States
    BY DEF States
  <1>1. CASE CardSends
    <2>1. /\ host' = [host EXCEPT !.run = Moved, !.port = <<Content>>, !.ready = TRUE]
          /\ card' = [card EXCEPT !.state = IF host.run.left = 1 THEN "tran" ELSE card.state]
          /\ host.run.left > 0 /\ host.run # Idle
          /\ drv' = drv /\ disk' = disk /\ faults' = faults /\ hist' = hist
      BY <1>1, <1>i DEF CardSends
    <2>2. host'.run = Moved /\ host'.port = <<Content>> /\ host'.width = host.width
      BY <2>1, <1>s DEF Shape
    <2>3. drv.op \in InitOps => Content \in RegisterValues
      <3>1. card.ver \in 0..2
        BY DEF Fields, CardTyped
      <3>2. drv.op \in InitOps => host.run.dir \in {"scr", "switch"}
        BY <1>1 DEF SdInv, Link, RegisterRuns, CardSends
      <3> QED BY <3>1, <3>2 DEF Content, RegisterValues
    <2>4. card.rca = Rca /\ \E s \in States : card' = [card EXCEPT !.state = s]
      BY <2>1, <1>r, <1>s, <1>t
    <2> QED BY <2>1, <2>2, <2>3, <2>4, <1>s, HardwareKeepsFields
  <1>2. CASE CardTakes
    <2>1. /\ host' = [host EXCEPT !.run = Moved, !.port = <<>>, !.ready = host.run.left > 1]
          /\ host.run.left > 0 /\ host.run # Idle
          /\ disk' = [disk EXCEPT ![host.run.at] = host.port[1]]
          /\ drv' = drv /\ card' = card /\ faults' = faults /\ hist' = hist
      BY <1>2, <1>i DEF CardTakes
    <2>2. host'.run = Moved /\ host'.port = <<>> /\ host'.width = host.width
      BY <2>1, <1>s DEF Shape
    <2>3. DOMAIN disk' = DOMAIN disk
      BY <2>1
    <2> QED BY <2>1, <2>2, <2>3, <1>s, HardwareKeepsFields
  <1>3. CASE Complete
    <2>1. /\ host' = [host EXCEPT !.run = Idle, !.tc = TRUE] /\ host.run # Idle
          /\ card' = [card EXCEPT !.state = IF host.run.dir = "write" THEN "prg" ELSE "tran"]
          /\ drv' = drv /\ disk' = disk /\ faults' = faults /\ hist' = hist /\ host.port = <<>>
      BY <1>3 DEF Complete
    <2>2. host'.run = Idle /\ host'.port = <<>> /\ host'.width = host.width
      BY <2>1, <1>s DEF Shape
    <2>3. card.rca = Rca /\ \E s \in States : card' = [card EXCEPT !.state = s]
      BY <2>1, <1>r, <1>t
    <2> QED BY <2>1, <2>2, <2>3, <1>s, HardwareKeepsFields
  <1>4. CASE Programmed
    <2>1. /\ host' = host /\ card.state = "prg" /\ card' = [card EXCEPT !.state = "tran"]
          /\ drv' = drv /\ disk' = disk /\ faults' = faults /\ hist' = hist
      BY <1>4 DEF Programmed
    <2>2. card.rca = Rca
      BY <2>1 DEF Fields, CardTyped, Powered
    <2>3. card.rca = Rca /\ \E s \in States : card' = [card EXCEPT !.state = s]
      BY <2>1, <2>2, <1>t
    <2>4. /\ host.port = <<>> \/ \E x : host.port = <<x>>
          /\ drv.op \in InitOps => host.port = <<>> \/ \E x \in RegisterValues : host.port = <<x>>
      BY DEF Fields, Typed, Registers
    <2> QED BY <2>1, <2>3, <2>4, <1>s, HardwareKeepsFields
  <1>5. CASE Damage
    <2>1. PICK port \in {<<>>, <<Damaged>>}, stuck \in BOOLEAN :
            /\ host' = [host EXCEPT !.run = Idle, !.err = TRUE, !.port = port, !.ready = port # <<>>]
            /\ card' = [card EXCEPT !.state = IF stuck THEN card.state ELSE "tran"]
      <3>1. PICK port \in {<<>>, <<Damaged>>}, stuck \in {FALSE, host.run.multi} :
              /\ host' = [host EXCEPT !.run = Idle, !.err = TRUE, !.port = port, !.ready = port # <<>>]
              /\ card' = [card EXCEPT !.state = IF stuck THEN card.state ELSE "tran"]
        BY <1>5 DEF Damage
      <3> DEFINE b == IF stuck THEN TRUE ELSE FALSE
      <3>2. /\ b \in BOOLEAN
            /\ card' = [card EXCEPT !.state = IF b THEN card.state ELSE "tran"]
        BY <3>1
      <3> QED BY <3>1, <3>2
    <2>2. /\ drv' = drv /\ disk' = disk /\ host.run.left > 0
          /\ hist' = [hist EXCEPT !.hurt = TRUE]
          /\ faults' = (IF Matching THEN faults - 1 ELSE faults) /\ (Matching => faults > 0)
      BY <1>5 DEF Damage
    <2>7. host.run # Idle /\ hist'.calls = hist.calls
      BY <2>2, <1>s, <1>i DEF Shape
    <2>3. faults' \in 0..MaxFaults
      BY <2>2, <1>s
    <2>4. host'.run = Idle /\ host'.port = port /\ host'.width = host.width
      BY <2>1, <1>s DEF Shape
    <2>5. card.rca = Rca /\ \E s \in States : card' = [card EXCEPT !.state = s]
      BY <2>1, <2>7, <1>r, <1>s, <1>t
    <2>6. Damaged \in RegisterValues
      BY DEF RegisterValues
    <2> QED BY <2>1, <2>2, <2>3, <2>4, <2>5, <2>6, <2>7, HardwareKeepsFields
  <1> QED BY <1>1, <1>2, <1>3, <1>4, <1>5 DEF Hardware

LEMMA CallKeepsFields ==
  ASSUME SdInv, Fields, NEW op \in {"read", "write"}, NEW start \in 0..CardBlocks,
         NEW n \in 0..MaxBlocks, Call(op, start, n)
  PROVE  Fields'
  <1>s. Shape
    BY DEF SdInv
  <1>1. /\ drv'.pc = "cmd13" /\ drv'.op = op /\ drv'.remain = n /\ drv'.buf = <<>>
        /\ drv'.mode = drv.mode /\ drv'.rca = drv.rca /\ drv'.ver = drv.ver
        /\ drv'.start = start /\ drv'.blocks = n /\ drv'.ocr = drv.ocr
        /\ drv'.tries = drv.tries /\ drv'.ret = -1 /\ start + n <= CardBlocks
        /\ hist'.calls = hist.calls - 1 /\ hist.calls > 0
        /\ card' = card /\ disk' = disk /\ faults' = faults /\ host' = host
    BY <1>s DEF Call, Shape, DrvFields
  <1>2. hist'.calls \in 0..MaxCalls
    <2>1. hist.calls \in 0..MaxCalls /\ MaxCalls \in Nat
      BY BoundAssumption DEF Fields, Typed
    <2> QED BY <1>1, <2>1
  <1>3. start \in Nat
    BY BoundAssumption
  <1>4. Typed' /\ CardTyped(card)'
    BY <1>1, <1>2, <1>3 DEF Fields, Typed, CardTyped, First
  <1>5. Registers' /\ Identified'
    BY <1>1 DEF Fields, Registers, Identified, First, InitOps
  <1> QED BY <1>4, <1>5 DEF Fields

LEMMA InitFields == Init => Fields
  <1> SUFFICES ASSUME Init PROVE Fields
    OBVIOUS
  <1>1. /\ drv = [pc |-> "identify", op |-> "init", tries |-> 0, ocr |-> 0, mode |-> "byte",
                  rca |-> 0, ver |-> 0, start |-> 0, blocks |-> 0, remain |-> 0, buf |-> <<>>,
                  ret |-> -1]
        /\ host = [width |-> 1, err |-> FALSE, ready |-> FALSE, tc |-> FALSE, port |-> <<>>,
                   run |-> Idle]
        /\ hist = [calls |-> MaxCalls, hurt |-> FALSE, late |-> FALSE]
        /\ faults = MaxFaults /\ DOMAIN disk = 0..(CardBlocks - 1)
    BY DEF Init
  <1>2. Typed
    BY <1>1, BoundAssumption DEF Typed, Idle, First, Rca, Bogus
  <1>3. \E k \in Cards : /\ card.kind = k.kind /\ card.ver = k.ver
                         /\ \/ card.state = "idle" /\ card.rca = 0
                            \/ card.state = "tran" /\ card.rca = Rca
    <2>1. \/ \E k \in Cards : card = [kind |-> k.kind, ver |-> k.ver, state |-> "idle", app |-> FALSE,
                                    rca |-> 0, width |-> 1, blklen |-> BlockSize]
          \/ \E k \in Cards : card = [kind |-> k.kind, ver |-> k.ver, state |-> "tran", app |-> FALSE,
                                    rca |-> Rca, width |-> 4, blklen |-> BlockSize]
      BY DEF Init
    <2> QED BY <2>1
  <1>4. CardTyped(card)
    BY <1>3, BoundAssumption DEF CardTyped, States, Powered
  <1>5. Registers /\ Identified
    BY <1>1 DEF Registers, Identified, InitOps, First
  <1> QED BY <1>2, <1>4, <1>5 DEF Fields

LEMMA FieldsStep == SdInv /\ Fields /\ [Next]_vars => Fields'
  <1> SUFFICES ASSUME SdInv, Fields, [Next]_vars PROVE Fields'
    OBVIOUS
  <1>1. CASE Driver
    BY <1>1, SendsKeepFields, IdentifyKeepsFields, Cmd41KeepsFields, Cmd3KeepsFields,
       RegistersKeepFields, VersionKeepsFields, Width6KeepsFields, Cmd13KeepsFields,
       CommandKeepsFields, WaitBufferKeepsFields, MoveBlockKeepsFields, WaitCompleteKeepsFields
       DEF Driver, Initialise
  <1>2. CASE Hardware \/ Damage
    BY <1>2, CardKeepsFields
  <1>3. CASE ReadBlocks \/ WriteBlocks
    BY <1>3, CallKeepsFields DEF ReadBlocks, WriteBlocks
  <1>4. CASE UNCHANGED vars
    BY <1>4 DEF vars, Fields, Typed, CardTyped, Registers, Identified
  <1> QED BY <1>1, <1>2, <1>3, <1>4 DEF Next

-----------------------------------------------------------------------------
(* The blocks of a call that met no fault.                                 *)

Good ==
  /\ drv.op \in {"read", "write"} /\ ~hist.hurt
  /\ drv.pc \in Moving \/ (drv.pc = "returned" /\ drv.ret \in {0, 1})

\* What a call starts from.
Asked ==
  drv.op \in {"read", "write"} /\ drv.pc \in {"cmd13", "command"} =>
    drv.remain = drv.blocks /\ drv.buf = <<>>

\* A read has the blocks so far in the buffer, and the next one comes or is in the port.
Reading ==
  Good /\ drv.op = "read" =>
    /\ drv.remain <= drv.blocks
    /\ drv.buf = [k \in 1..(drv.blocks - drv.remain) |-> disk[drv.start + k - 1]]
    /\ host.run.dir \in {"read", "none"}
    /\ host.run.dir = "read" => host.run.at = drv.start + drv.blocks - host.run.left
    /\ drv.pc = "wait" =>
         /\ host.run.dir = "read"
         /\ \/ host.port = <<>> /\ ~host.ready /\ host.run.left = drv.remain
            \/ /\ host.port = <<disk[drv.start + drv.blocks - drv.remain]>>
               /\ host.ready /\ host.run.left = drv.remain - 1
    /\ drv.pc = "move" =>
         /\ host.run.dir = "read" /\ host.port = <<disk[drv.start + drv.blocks - drv.remain]>>
         /\ ~host.ready /\ host.run.left = drv.remain - 1
    /\ drv.pc \in {"complete", "returned"} =>
         drv.remain = 0 /\ host.run.left = 0 /\ host.port = <<>>

\* A write has the blocks so far on the disk, but one that may be in the port; the card
\* leaves the receive state with the last.
Writing ==
  Good /\ drv.op = "write" =>
    /\ host.run.left <= drv.blocks
    /\ \A b \in drv.start..(drv.start + drv.blocks - host.run.left - 1) :
         disk[b] = <<hist.calls + 1, b>>
    /\ \/ /\ host.run = Idle /\ host.port = <<>>
          /\ drv.pc \in {"complete", "returned"} /\ drv.remain = 0
       \/ /\ host.run.dir = "write" /\ card.state = "rcv"
          /\ host.run.at = drv.start + drv.blocks - host.run.left
          /\ \/ /\ host.port = <<>> /\ host.run.left = drv.remain
                /\ (drv.pc = "wait" => host.ready) /\ (drv.pc = "move" => ~host.ready)
             \/ /\ host.port = <<<<hist.calls + 1, host.run.at>>>>
                /\ host.run.left = drv.remain + 1 /\ ~host.ready /\ drv.pc # "move"
          /\ drv.pc \in {"complete", "returned"} => drv.remain = 0

Transfers == Asked /\ Reading /\ Writing

\* A sequence so far, and one block more.
LEMMA OneMore ==
  ASSUME NEW m \in Nat, NEW a \in Nat, NEW d
  PROVE  Append([k \in 1..m |-> d[a + k - 1]], d[a + m]) = [k \in 1..(m + 1) |-> d[a + k - 1]]
  <1> DEFINE S == {d[i] : i \in Nat}
             s == [k \in 1..m |-> d[a + k - 1]]
             t == [k \in 1..(m + 1) |-> d[a + k - 1]]
  <1>1. s \in Seq(S) /\ Len(s) = m
    <2>1. \A k \in 1..m : a + k - 1 \in Nat
      OBVIOUS
    <2>2. \A k \in 1..m : d[a + k - 1] \in S
      BY <2>1
    <2>3. s \in [1..m -> S]
      BY <2>2
    <2> HIDE DEF s
    <2> QED BY <2>3
  <1>2. d[a + m] \in S
    OBVIOUS
  <1>3. \A k \in 1..(m + 1) : t[k] = IF k = m + 1 THEN d[a + m] ELSE s[k]
    <2> TAKE k \in 1..(m + 1)
    <2>1. CASE k = m + 1
      <3>1. a + k - 1 = a + m
        BY <2>1
      <3> QED BY <2>1, <3>1
    <2>2. CASE k # m + 1
      <3>1. k \in 1..m
        BY <2>2
      <3> QED BY <2>2, <3>1
    <2> QED BY <2>1, <2>2
  <1>4. t = [k \in 1..(m + 1) |-> t[k]]
    OBVIOUS
  <1> HIDE DEF s, t, S
  <1>5. Append(s, d[a + m]) = [k \in 1..(m + 1) |-> IF k = m + 1 THEN d[a + m] ELSE s[k]]
    BY <1>1, <1>2
  <1>6. Append(s, d[a + m]) = t
    BY <1>3, <1>4, <1>5
  <1> QED BY <1>6 DEF s, t

\* SDHC_Init makes no call's transfer.
LEMMA InitialiseOps == SdInv /\ Initialise => drv'.op \in InitOps
  <1> SUFFICES ASSUME SdInv, Initialise PROVE drv'.op \in InitOps
    OBVIOUS
  <1>s. Shape
    BY DEF SdInv
  <1>1. drv.op \in InitOps \/ (Cmd16 /\ drv.op \in InitOps)
    BY DEF SdInv, OpFits, First, Named, Addressed, Last, Initialise, Identify, Cmd55, Cmd41, Cmd2,
           Cmd3, Cmd9, Cmd7, Scr16, Scr55, Scr51, Version, Speed16, Speed6, Width55, Width6, Cmd16
  <1>2. CASE Cmd55 \/ Cmd2 \/ Cmd9 \/ Cmd7 \/ Scr16 \/ Scr55 \/ Speed16 \/ Width55 \/ Cmd16
    <2>1. \E c, arg, yes, no : Send(c, arg, yes, no)
      <3> HIDE DEF Send
      <3>1. CASE Cmd55
        BY <3>1 DEF Cmd55
      <3>2. CASE Cmd2
        BY <3>2 DEF Cmd2
      <3>3. CASE Cmd9
        BY <3>3 DEF Cmd9
      <3>4. CASE Cmd7
        BY <3>4 DEF Cmd7
      <3>5. CASE Scr16
        BY <3>5 DEF Scr16
      <3>6. CASE Scr55
        BY <3>6 DEF Scr55
      <3>7. CASE Speed16
        BY <3>7 DEF Speed16
      <3>8. CASE Width55
        BY <3>8 DEF Width55
      <3>9. CASE Cmd16
        BY <3>9 DEF Cmd16
      <3> QED BY <1>2, <3>1, <3>2, <3>3, <3>4, <3>5, <3>6, <3>7, <3>8, <3>9
    <2>2. PICK pc : drv' = [drv EXCEPT !.pc = pc]
      BY <2>1 DEF Send
    <2> QED BY <1>1, <1>s, <2>2 DEF Shape, DrvFields
  <1>3. CASE Identify \/ Cmd3 \/ Version
    BY <1>1, <1>3, <1>s DEF Identify, Cmd3, Version, GoTo, Shape, DrvFields
  <1>4. CASE Cmd41
    BY <1>1, <1>4, <1>s DEF Cmd41, Shape, DrvFields
  <1>5. CASE Scr51
    BY <1>1, <1>5, <1>s DEF Scr51, SendData, GoTo, ReadRegister, Shape, DrvFields, InitOps
  <1>6. CASE Speed6
    BY <1>1, <1>6, <1>s DEF Speed6, SendData, GoTo, ReadRegister, Shape, DrvFields, InitOps
  <1>7. CASE Width6
    BY <1>1, <1>7, <1>s DEF Width6, GoTo, Shape, DrvFields, InitOps
  <1> QED BY <1>2, <1>3, <1>4, <1>5, <1>6, <1>7 DEF Initialise

LEMMA InitialiseTransfers == SdInv /\ Initialise => Transfers'
  BY InitialiseOps DEF InitOps, Transfers, Asked, Reading, Writing, Good

LEMMA Cmd13Transfers == SdInv /\ Transfers /\ Cmd13 => Transfers'
  <1> SUFFICES ASSUME SdInv, Transfers, Cmd13 PROVE Transfers'
    OBVIOUS
  <1>1. /\ drv.pc = "cmd13" /\ drv'.op = drv.op /\ drv'.remain = drv.remain
        /\ drv'.blocks = drv.blocks /\ drv'.buf = drv.buf
        /\ \/ drv'.pc \in {"cmd13", "cmd16", "command", "failed"}
           \/ drv'.pc = "returned" /\ drv'.ret = 3
    BY DEF Cmd13, GoTo, Return, SdInv, Shape, DrvFields
  <1> QED BY <1>1 DEF Transfers, Asked, Reading, Writing, Good, Moving

LEMMA CallTransfers ==
  ASSUME SdInv, NEW op \in {"read", "write"}, NEW start, NEW n, Call(op, start, n)
  PROVE  Transfers'
  <1>1. drv'.pc = "cmd13" /\ drv'.remain = n /\ drv'.blocks = n /\ drv'.buf = <<>>
    BY DEF Call, SdInv, Shape, DrvFields
  <1> QED BY <1>1 DEF Transfers, Asked, Reading, Writing, Good, Moving

LEMMA CommandTransfers == SdInv /\ Fields /\ Transfers /\ Command => Transfers'
  <1> SUFFICES ASSUME SdInv, Fields, Transfers, Command PROVE Transfers'
    OBVIOUS
  <1> DEFINE run == [dir |-> drv.op, at |-> drv.start, left |-> drv.blocks,
                     multi |-> ~(drv.blocks = 1)]
  <1>1. /\ drv.op \in {"read", "write"} /\ drv'.op = drv.op /\ drv'.remain = drv.remain
        /\ drv'.buf = drv.buf /\ drv'.start = drv.start /\ drv'.blocks = drv.blocks
        /\ drv'.pc = FirstWait \/ (drv'.pc = "returned" /\ drv'.ret \in {4, 5})
        /\ disk' = disk
        /\ \/ drv'.pc = "returned"
           \/ /\ host'.run = run /\ host'.port = <<>>
              /\ (host'.ready <=> drv.op = "write" /\ drv.blocks > 0)
        /\ drv'.pc # "returned" => card'.state = IF drv.op = "read" THEN "data" ELSE "rcv"
    BY CommandIs
  <1>2. run.dir = drv.op /\ run.at = drv.start /\ run.left = drv.blocks
    OBVIOUS
  <1> HIDE DEF run
  <1>3. /\ drv.remain = drv.blocks /\ drv.buf = <<>> /\ drv.start \in Nat /\ drv.blocks \in Nat
    BY <1>1 DEF Command, Transfers, Asked, Fields, Typed
  <1>4. CASE drv'.pc = "returned"
    <2>1. drv'.ret \in {4, 5}
      BY <1>1, <1>4 DEF FirstWait
    <2> QED BY <1>4, <2>1 DEF Transfers, Asked, Reading, Writing, Good, Moving
  <1>5. CASE drv'.pc # "returned"
    <2>1. drv'.pc = (IF drv.blocks = 0 THEN "complete" ELSE "wait")
      BY <1>1, <1>3, <1>5 DEF FirstWait
    <2>2. Asked'
      BY <2>1 DEF Asked
    <2>3. Reading'
      <3>1. drv'.blocks - drv'.remain = 0
        BY <1>1, <1>3
      <3>2. [k \in 1..0 |-> disk'[drv'.start + k - 1]] = <<>>
        OBVIOUS
      <3>3. drv'.start = drv'.start + drv'.blocks - drv'.blocks
        BY <1>1, <1>3
      <3> QED BY <1>1, <1>2, <1>3, <1>5, <2>1, <3>1, <3>2, <3>3 DEF Reading
    <2>4. Writing'
      <3>1. drv'.start + drv'.blocks - drv'.blocks = drv'.start
        BY <1>1, <1>3
      <3>2. \A b \in drv'.start..(drv'.start - 1) : FALSE
        BY <1>1, <1>3
      <3> QED BY <1>1, <1>2, <1>3, <1>5, <2>1, <3>1, <3>2 DEF Writing
    <2> QED BY <2>2, <2>3, <2>4 DEF Transfers
  <1> QED BY <1>4, <1>5

\* The driver's waits: none runs out, for a block is in the port or on its way.
LEMMA WaitBufferTransfers == SdInv /\ Fields /\ Transfers /\ WaitBuffer => Transfers'
  <1> SUFFICES ASSUME SdInv, Fields, Transfers, WaitBuffer PROVE Transfers'
    OBVIOUS
  <1>1. /\ drv.pc = "wait" /\ drv'.pc = "move" /\ drv'.op = drv.op /\ drv'.remain = drv.remain
        /\ drv'.buf = drv.buf /\ drv'.start = drv.start /\ drv'.blocks = drv.blocks
        /\ host.ready /\ ~host'.ready /\ host'.run = host.run /\ host'.port = host.port
        /\ card' = card /\ disk' = disk /\ hist' = hist
    BY DEF WaitBuffer, GoTo, SdInv, Shape, DrvFields
  <1>2. Reading'
    BY <1>1 DEF Transfers, Reading, Good, Moving
  <1>3. Writing'
    BY <1>1 DEF Transfers, Writing, Good, Moving
  <1>4. Asked'
    BY <1>1 DEF Asked
  <1> QED BY <1>2, <1>3, <1>4 DEF Transfers

LEMMA NoWaitForBlock == SdInv /\ Fields /\ Transfers /\ Good => ~WaitBufferRunsOut
  <1> SUFFICES ASSUME SdInv, Fields, Transfers, Good, WaitBufferRunsOut PROVE FALSE
    OBVIOUS
  <1>1. drv.pc = "wait" /\ ~host.ready /\ ~BufferWillBeReady
    BY DEF WaitBufferRunsOut
  <1>2. drv.remain \in Nat /\ drv.remain > 0
    BY <1>1 DEF Fields, Typed
  <1>3. CASE drv.op = "read"
    BY <1>1, <1>2, <1>3 DEF Transfers, Reading, BufferWillBeReady
  <1>4. CASE drv.op = "write"
    <2>1. /\ host.run.dir = "write" /\ host.run.left = drv.remain + 1
          /\ host.port = <<<<hist.calls + 1, host.run.at>>>>
      BY <1>1, <1>4 DEF Transfers, Writing
    <2>2. host.port # <<>>
      BY <2>1
    <2> QED BY <1>1, <1>2, <2>1, <2>2 DEF BufferWillBeReady
  <1> QED BY <1>3, <1>4 DEF Good

LEMMA WaitBufferRunsOutTransfers == SdInv /\ Fields /\ Transfers /\ WaitBufferRunsOut => Transfers'
  <1> SUFFICES ASSUME SdInv, Fields, Transfers, WaitBufferRunsOut PROVE Transfers'
    OBVIOUS
  <1>1. /\ drv.pc = "wait" /\ drv'.pc = "move" /\ drv'.op = drv.op /\ (hist'.hurt <=> hist.hurt)
    BY DEF WaitBufferRunsOut, GoTo, SdInv, Shape, DrvFields
  <1>2. ~Good
    BY NoWaitForBlock
  <1>3. ~Good' /\ Asked'
    BY <1>1, <1>2 DEF Good, Moving, Asked
  <1> QED BY <1>3 DEF Transfers, Reading, Writing

LEMMA MoveBlockTransfers == SdInv /\ Fields /\ Transfers /\ MoveBlock => Transfers'
  <1> SUFFICES ASSUME SdInv, Fields, Transfers, MoveBlock PROVE Transfers'
    OBVIOUS
  <1> DEFINE left == drv.remain - 1
  <1>1. drv.pc = "move" /\ drv.remain \in Nat /\ drv.remain > 0 /\ drv.start \in Nat /\ drv.blocks \in Nat
        /\ host.run.left \in Nat
    BY DEF Fields, Typed, MoveBlock
  <1>2. left \in Nat /\ left + 1 = drv.remain /\ (left # 0 => left > 0)
    BY <1>1
  <1> HIDE DEF left
  <1>3. /\ drv'.pc = (IF left = 0 THEN "complete" ELSE "wait") /\ drv'.remain = left
        /\ drv'.op = drv.op /\ drv'.start = drv.start /\ drv'.blocks = drv.blocks
        /\ drv.op # "write" => drv'.buf = Append(drv.buf, IF host.port = <<>> THEN Stale ELSE host.port[1])
        /\ host'.run = host.run /\ (host'.ready <=> host.ready)
        /\ drv.op # "write" => host'.port = <<>>
        /\ drv.op = "write" /\ host.run.dir = "write" => host'.port = <<NextOut>>
        /\ drv.op = "write" /\ host.run.dir # "write" => host'.port = host.port
        /\ card' = card /\ disk' = disk /\ hist' = hist
    BY DEF MoveBlock, SdInv, Shape, DrvFields, left
  <1>4. Good' => Good
    BY <1>1, <1>3 DEF Good, Moving
  <1>5. ASSUME Good', drv.op = "read"
        PROVE  Reading'
    <2> DEFINE m == drv.blocks - drv.remain
    <2>1. /\ drv.remain <= drv.blocks /\ drv.buf = [k \in 1..m |-> disk[drv.start + k - 1]]
          /\ host.run.dir = "read" /\ host.run.at = drv.start + drv.blocks - host.run.left
          /\ host.port = <<disk[drv.start + drv.blocks - drv.remain]>> /\ ~host.ready
          /\ host.run.left = left
      BY <1>1, <1>4, <1>5 DEF Transfers, Reading, left
    <2>2. /\ m \in Nat /\ drv.start + drv.blocks - drv.remain = drv.start + m
          /\ m + 1 = drv.blocks - left /\ left <= drv.blocks
      BY <1>1, <1>2, <2>1
    <2> HIDE DEF m
    <2>3. host.port # <<>> /\ host.port[1] = disk[drv.start + m]
      BY <2>1, <2>2
    <2>4. drv'.buf = Append([k \in 1..m |-> disk[drv.start + k - 1]], disk[drv.start + m])
      BY <1>3, <1>5, <2>1, <2>3
    <2>5. drv'.buf = [k \in 1..(m + 1) |-> disk[drv.start + k - 1]]
      BY <1>1, <2>2, <2>4, OneMore
    <2>6. drv'.buf = [k \in 1..(drv'.blocks - drv'.remain) |-> disk'[drv'.start + k - 1]]
      BY <1>3, <2>2, <2>5
    <2> QED BY <1>3, <1>5, <2>1, <2>2, <2>6 DEF Reading
  <1>6. ASSUME Good', drv.op = "write"
        PROVE  Writing'
    <2>1. /\ host.run.left <= drv.blocks
          /\ \A b \in drv.start..(drv.start + drv.blocks - host.run.left - 1) :
               disk[b] = <<hist.calls + 1, b>>
          /\ host.run.dir = "write" /\ card.state = "rcv"
          /\ host.run.at = drv.start + drv.blocks - host.run.left
          /\ host.run.left = drv.remain /\ ~host.ready
      BY <1>1, <1>4, <1>6 DEF Transfers, Writing
    <2>2. NextOut = <<hist.calls + 1, host.run.at>>
      <3>1. drv.start + (drv.blocks - drv.remain + 1) - 1 = host.run.at
        BY <1>1, <2>1
      <3> QED BY <3>1 DEF NextOut, Data
    <2> QED BY <1>2, <1>3, <1>6, <2>1, <2>2 DEF Writing
  <1>7. Asked'
    BY <1>3 DEF Asked
  <1>8. Good' => drv.op \in {"read", "write"} /\ drv'.op = drv.op
    BY <1>3 DEF Good
  <1> QED BY <1>5, <1>6, <1>7, <1>8 DEF Transfers, Reading, Writing

LEMMA WaitCompleteTransfers ==
  SdInv /\ Fields /\ Transfers /\ (WaitComplete \/ WaitCompleteRunsOut) => Transfers'
  <1> SUFFICES ASSUME SdInv, Fields, Transfers, WaitComplete \/ WaitCompleteRunsOut PROVE Transfers'
    OBVIOUS
  <1>s. Shape /\ drv.pc = "complete" /\ drv' \in Finished
    BY DEF SdInv, WaitComplete, WaitCompleteRunsOut
  <1>1. /\ host'.run = host.run /\ host'.port = host.port /\ (host'.ready <=> host.ready)
        /\ card' = card /\ disk' = disk /\ (hist'.hurt <=> hist.hurt) /\ hist'.calls = hist.calls
    BY <1>s DEF WaitComplete, WaitCompleteRunsOut, Shape
  <1>2. CASE drv.op \in {"read", "write"}
    <2>1. /\ drv'.pc = "returned" /\ drv'.op = drv.op /\ drv'.remain = drv.remain
          /\ drv'.buf = drv.buf /\ drv'.start = drv.start /\ drv'.blocks = drv.blocks
      BY <1>s, <1>2 DEF Finished, Return, Shape, DrvFields
    <2>2. Reading'
      BY <1>1, <1>s, <2>1 DEF Transfers, Reading, Good, Moving
    <2>3. Writing'
      BY <1>1, <1>s, <2>1 DEF Transfers, Writing, Good, Moving
    <2>4. Asked'
      BY <2>1 DEF Asked
    <2> QED BY <2>2, <2>3, <2>4 DEF Transfers
  <1>3. CASE drv.op \notin {"read", "write"}
    <2>1. drv'.op = drv.op
      BY <1>s, FinishedIs DEF SdInv
    <2> QED BY <1>3, <2>1 DEF Transfers, Asked, Reading, Writing, Good
  <1> QED BY <1>2, <1>3

\* A block comes: it is the next one.
LEMMA CardSendsTransfers == SdInv /\ Fields /\ Transfers /\ CardSends => Transfers'
  <1> SUFFICES ASSUME SdInv, Fields, Transfers, CardSends PROVE Transfers'
    OBVIOUS
  <1>1. /\ host'.run = Moved /\ host'.port = <<Content>> /\ host'.ready
        /\ drv' = drv /\ disk' = disk /\ hist' = hist
        /\ host.run.left > 0 /\ host.port = <<>> /\ host.run.dir \in {"read", "scr", "switch"}
    BY DEF CardSends, SdInv, Shape
  <1>2. /\ drv.remain \in Nat /\ drv.start \in Nat /\ drv.blocks \in Nat /\ host.run.left \in Nat
    BY DEF Fields, Typed
  <1>3. /\ Moved.left = host.run.left - 1 /\ Moved.at = host.run.at + 1 /\ Moved.dir = host.run.dir
    BY MovedIs
  <1>4. Reading'
    <2> SUFFICES ASSUME Good, drv.op = "read" PROVE Reading'
      BY <1>1 DEF Reading, Good
    <2>1. /\ drv.remain <= drv.blocks
          /\ drv.buf = [k \in 1..(drv.blocks - drv.remain) |-> disk[drv.start + k - 1]]
          /\ host.run.at = drv.start + drv.blocks - host.run.left
          /\ drv.pc = "wait" /\ host.run.dir = "read" /\ host.run.left = drv.remain
      BY <1>1 DEF Transfers, Reading, Good, Moving
    <2>2. Content = disk[drv.start + drv.blocks - drv.remain]
      BY <2>1 DEF Content
    <2>3. host.run.at + 1 = drv.start + drv.blocks - (host.run.left - 1)
      BY <1>2, <2>1
    <2> QED BY <1>1, <1>3, <2>1, <2>2, <2>3 DEF Reading
  <1>5. Writing'
    <2> SUFFICES ASSUME Good, drv.op = "write" PROVE FALSE
      BY <1>1 DEF Writing, Good
    <2> QED BY <1>1 DEF Transfers, Writing, Idle
  <1>6. Asked'
    BY <1>1 DEF Transfers, Asked
  <1> QED BY <1>4, <1>5, <1>6 DEF Transfers

\* The card takes a block: it belongs there.
LEMMA CardTakesTransfers == SdInv /\ Fields /\ Transfers /\ CardTakes => Transfers'
  <1> SUFFICES ASSUME SdInv, Fields, Transfers, CardTakes PROVE Transfers'
    OBVIOUS
  <1>1. /\ host'.run = Moved /\ host'.port = <<>> /\ (host'.ready <=> host.run.left > 1)
        /\ drv' = drv /\ card' = card /\ hist' = hist
        /\ disk' = [disk EXCEPT ![host.run.at] = host.port[1]]
        /\ host.run.left > 0 /\ host.port # <<>> /\ host.run.dir = "write"
    BY DEF CardTakes, SdInv, Shape
  <1>2. /\ drv.remain \in Nat /\ drv.start \in Nat /\ drv.blocks \in Nat /\ host.run.left \in Nat
        /\ drv.start + drv.blocks <= CardBlocks /\ CardBlocks \in Nat
        /\ DOMAIN disk = 0..(CardBlocks - 1)
    BY BoundAssumption DEF Fields, Typed
  <1>3. /\ Moved.left = host.run.left - 1 /\ Moved.at = host.run.at + 1 /\ Moved.dir = host.run.dir
    BY MovedIs
  <1>4. Writing'
    <2> SUFFICES ASSUME Good, drv.op = "write" PROVE Writing'
      BY <1>1 DEF Writing, Good
    <2>1. /\ host.run.left <= drv.blocks
          /\ \A b \in drv.start..(drv.start + drv.blocks - host.run.left - 1) :
               disk[b] = <<hist.calls + 1, b>>
          /\ card.state = "rcv" /\ host.run.at = drv.start + drv.blocks - host.run.left
          /\ host.port = <<<<hist.calls + 1, host.run.at>>>>
          /\ host.run.left = drv.remain + 1 /\ drv.pc # "move"
          /\ drv.pc \in {"complete", "returned"} => drv.remain = 0
      <3>1. host.run # Idle
        BY <1>1 DEF Idle
      <3> QED BY <1>1, <3>1 DEF Transfers, Writing
    <2> DEFINE at == host.run.at
    <2>2. /\ at \in 0..(CardBlocks - 1) /\ at >= drv.start
          /\ at = drv.start + drv.blocks - (host.run.left - 1) - 1
          /\ at + 1 = drv.start + drv.blocks - (host.run.left - 1)
          /\ at - 1 = drv.start + drv.blocks - host.run.left - 1
          /\ host.run.left - 1 = drv.remain /\ host.run.left - 1 <= drv.blocks
      <3> DEFINE start == drv.start
                 blocks == drv.blocks
                 left == host.run.left
                 remain == drv.remain
      <3>1. /\ start \in Nat /\ blocks \in Nat /\ left \in Nat
            /\ remain \in Nat /\ CardBlocks \in Nat
            /\ start + blocks <= CardBlocks /\ left > 0 /\ left <= blocks /\ left = remain + 1
            /\ at = start + blocks - left
        BY <1>1, <1>2, <2>1
      <3>2. /\ at \in 0..(CardBlocks - 1) /\ at >= start
            /\ at = start + blocks - (left - 1) - 1 /\ at + 1 = start + blocks - (left - 1)
            /\ at - 1 = start + blocks - left - 1 /\ left - 1 = remain /\ left - 1 <= blocks
        BY ONLY <3>1
      <3> QED BY <3>2
    <2>5. \A b \in drv.start..(at - 1) : disk[b] = <<hist.calls + 1, b>>
      BY <2>1, <2>2
    <2>3. drv.pc = "wait" => host.run.left > 1
      BY <1>2, <2>1 DEF Fields, Typed
    <2> HIDE DEF at
    <2>4. \A b \in drv.start..at : disk'[b] = <<hist.calls + 1, b>>
      <3>1. disk'[at] = <<hist.calls + 1, at>>
        BY <1>1, <1>2, <2>1, <2>2 DEF at
      <3>2. ASSUME NEW b \in drv.start..(at - 1) PROVE disk'[b] = <<hist.calls + 1, b>>
        <4>1. b \in DOMAIN disk /\ b # at
          <5>1. /\ drv.start \in Nat /\ at \in Nat /\ at <= CardBlocks - 1 /\ CardBlocks \in Nat
            BY <1>2, <2>2
          <5>2. b \in 0..(CardBlocks - 1) /\ b # at
            BY ONLY <3>2, <5>1
          <5> QED BY <1>2, <5>2
        <4> QED BY <1>1, <2>5, <4>1 DEF at
      <3>3. \A b \in drv.start..at : b = at \/ b \in drv.start..(at - 1)
        BY <1>2, <2>2
      <3> QED BY <3>1, <3>2, <3>3
    <2> QED BY <1>1, <1>3, <2>1, <2>2, <2>3, <2>4 DEF Writing, at
  <1>5. Reading'
    <2> SUFFICES ASSUME Good, drv.op = "read" PROVE FALSE
      BY <1>1 DEF Reading, Good
    <2> QED BY <1>1 DEF Transfers, Reading
  <1>6. Asked'
    BY <1>1 DEF Transfers, Asked
  <1> QED BY <1>4, <1>5, <1>6 DEF Transfers

LEMMA CompleteTransfers == SdInv /\ Fields /\ Transfers /\ Complete => Transfers'
  <1> SUFFICES ASSUME SdInv, Fields, Transfers, Complete PROVE Transfers'
    OBVIOUS
  <1>1. /\ host'.run = Idle /\ host'.port = host.port /\ (host'.ready <=> host.ready)
        /\ drv' = drv /\ disk' = disk /\ hist' = hist
        /\ host.run.left = 0 /\ host.port = <<>>
    BY DEF Complete, SdInv, Shape
  <1>2. drv.remain \in Nat /\ (drv.pc \in {"wait", "move"} => drv.remain > 0)
    BY DEF Fields, Typed
  <1>3. Idle.left = 0 /\ Idle.dir = "none"
    BY DEF Idle
  <1>4. Reading'
    <2> SUFFICES ASSUME Good, drv.op = "read" PROVE Reading'
      BY <1>1 DEF Reading, Good
    <2>1. drv.pc \in {"complete", "returned"}
      BY <1>1, <1>2 DEF Transfers, Reading, Good, Moving
    <2> QED BY <1>1, <1>3, <2>1 DEF Transfers, Reading
  <1>5. Writing'
    <2> SUFFICES ASSUME Good, drv.op = "write" PROVE Writing'
      BY <1>1 DEF Writing, Good
    <2>1. drv.remain = 0 /\ drv.pc \in {"complete", "returned"}
      BY <1>1, <1>2 DEF Transfers, Writing, Good, Moving
    <2> QED BY <1>1, <1>3, <2>1 DEF Transfers, Writing
  <1>6. Asked'
    BY <1>1 DEF Transfers, Asked
  <1> QED BY <1>4, <1>5, <1>6 DEF Transfers

LEMMA ProgrammedTransfers == SdInv /\ Transfers /\ Programmed => Transfers'
  <1> SUFFICES ASSUME SdInv, Transfers, Programmed PROVE Transfers'
    OBVIOUS
  <1>1. host' = host /\ drv' = drv /\ disk' = disk /\ hist' = hist /\ card.state = "prg"
    BY DEF Programmed
  <1>2. Reading' /\ Asked'
    BY <1>1 DEF Transfers, Reading, Asked, Good
  <1>3. Writing'
    BY <1>1 DEF Transfers, Writing, Good
  <1> QED BY <1>2, <1>3 DEF Transfers

LEMMA DamageTransfers == SdInv /\ Transfers /\ Damage => Transfers'
  <1> SUFFICES ASSUME SdInv, Transfers, Damage PROVE Transfers'
    OBVIOUS
  <1>1. drv' = drv /\ hist'.hurt
    BY DEF Damage, SdInv, Shape
  <1> QED BY <1>1 DEF Transfers, Asked, Reading, Writing, Good

LEMMA TransfersStep == SdInv /\ Fields /\ Transfers /\ [Next]_vars => Transfers'
  <1> SUFFICES ASSUME SdInv, Fields, Transfers, [Next]_vars PROVE Transfers'
    OBVIOUS
  <1>1. CASE Driver
    BY <1>1, InitialiseTransfers, Cmd13Transfers, CommandTransfers, WaitBufferTransfers,
       WaitBufferRunsOutTransfers, MoveBlockTransfers, WaitCompleteTransfers DEF Driver
  <1>2. CASE Hardware \/ Damage
    BY <1>2, CardSendsTransfers, CardTakesTransfers, CompleteTransfers, ProgrammedTransfers,
       DamageTransfers DEF Hardware
  <1>3. CASE ReadBlocks \/ WriteBlocks
    BY <1>3, CallTransfers DEF ReadBlocks, WriteBlocks
  <1>4. CASE UNCHANGED vars
    BY <1>4 DEF vars, Transfers, Asked, Reading, Writing, Good
  <1> QED BY <1>1, <1>2, <1>3, <1>4 DEF Next

-----------------------------------------------------------------------------
(* As long as no fault happened.                                           *)

\* SDHC_Init's two registers come.
RegisterComes ==
  drv.op \in {"scr", "switch"} =>
    /\ drv.pc = "wait" =>
         /\ host.run.dir = drv.op
         /\ \/ host.port = <<>> /\ ~host.ready /\ host.run.left = 1
            \/ host.port # <<>> /\ host.ready /\ host.run.left = 0 /\ card.state = "tran"
    /\ drv.pc = "move" => host.port # <<>> /\ host.run.left = 0 /\ card.state = "tran"
    /\ drv.pc = "complete" => host.port = <<>> /\ host.run.left = 0 /\ card.state = "tran"
    /\ drv.op = "scr" /\ drv.pc \in {"wait", "move"} => host.port \in {<<>>, <<Scr(card.ver)>>}
    /\ drv.op = "scr" /\ drv.pc = "complete" => drv.buf = <<Scr(card.ver)>>

\* The card goes through SDHC_Init as the driver expects, with the width and the block
\* length of the host in the end, and a transfer goes on until it is complete.
Quietly ==
  /\ ~host.err /\ ~hist.hurt /\ ~hist.late
  /\ drv.pc # "identify" => card.width = host.width
  /\ \/ drv.pc \in First \cup {"cmd2", "cmd3", "cmd9", "cmd7", "failed", "ready"}
     \/ drv.op \notin InitOps
     => card.blklen = BlockSize
  /\ drv.pc \in {"cmd55", "cmd41"} => card.state = "idle" /\ card.rca = 0
  /\ drv.pc = "cmd41" => card.app
  /\ \/ drv.pc \in Addressed \cup {"cmd16"}
     \/ drv.pc = "cmd13" /\ drv.op = "init"
     => card.state = "tran"
  /\ drv.ver \in {0, card.ver}
  /\ drv.pc \in {"speed16", "speed6"} => drv.ver # 0
  /\ drv.pc \in Moving => host.run # Idle \/ host.tc

Clean == faults = MaxFaults => Quietly /\ RegisterComes

\* A command without fault: the card obeys and the driver goes on, or neither.
LEMMA SentCleanly ==
  ASSUME SdInv, Fields, Clean, NEW c \in Cmds \ {0}, NEW arg, NEW yes, NEW no,
         Send(c, arg, yes, no), faults' = MaxFaults, c \in Forgiven => Obeys(c, arg)
  PROVE  /\ Quietly /\ RegisterComes
         /\ ~host'.err /\ ~hist'.hurt /\ ~hist'.late
         /\ drv'.op = drv.op /\ drv'.ver = drv.ver
         /\ host'.run = host.run /\ host'.width = host.width
         /\ card'.ver = card.ver
         /\ c # 6 => card'.width = card.width
         /\ c # 16 => card'.blklen = card.blklen
         /\ \/ Obeys(c, arg) /\ card' \in After(c, arg) /\ drv'.pc = yes
            \/ ~Obeys(c, arg) /\ card' = PlainCard(card) /\ drv'.pc = no
  <1>1. /\ drv'.pc \in {yes, no}
        /\ \A f \in DrvFields \ {"pc"} : drv'[f] = drv[f]
        /\ host'.run = host.run /\ host'.width = host.width
        /\ card'.ver = card.ver
        /\ c # 6 => card'.width = card.width
        /\ c # 16 => card'.blklen = card.blklen
        /\ hist'.late = hist.late
        /\ faults = MaxFaults /\ (hist'.hurt <=> hist.hurt)
        /\ IF Obeys(c, arg) THEN card' \in After(c, arg) /\ (host'.err => host.err)
                                 /\ (~host.err => drv'.pc = yes)
           ELSE card' = PlainCard(card) /\ (c \notin Forgiven => ~host'.err /\ drv'.pc = no)
    BY SentFields DEF SdInv
  <1>2. Quietly /\ RegisterComes
    BY <1>1 DEF Clean
  <1>3. ~host.err /\ ~hist.hurt /\ ~hist.late
    BY <1>2 DEF Quietly
  <1>4. drv'.op = drv.op /\ drv'.ver = drv.ver
    BY <1>1 DEF DrvFields
  <1> QED BY <1>1, <1>2, <1>3, <1>4

LEMMA PlainIs ==
  ASSUME Shape PROVE /\ PlainCard(card).state = card.state /\ ~PlainCard(card).app
                     /\ PlainCard(card).rca = card.rca
  BY DEF PlainCard, Shape, CardFields

LEMMA SendsClean ==
  ASSUME SdInv, Fields, Clean,
         Cmd55 \/ Cmd2 \/ Cmd9 \/ Cmd7 \/ Scr16 \/ Scr55 \/ Speed16 \/ Width55 \/ Cmd16
  PROVE  Clean'
  <1> SUFFICES ASSUME faults' = MaxFaults PROVE Quietly' /\ RegisterComes'
    BY DEF Clean
  <1>s. Shape /\ DOMAIN card = CardFields
    BY DEF SdInv, Shape
  <1> USE DEF Cmds, First, Moving, Addressed, InitOps
  <1>1. CASE Cmd55
    <2>1. drv.pc = "cmd55" /\ Send(55, 0, "cmd41", "cmd41")
      BY <1>1 DEF Cmd55
    <2>2. faults = MaxFaults
      BY <2>1, SentFields, <1>s
    <2>3. Obeys(55, 0)
      BY <2>1, <2>2, ObeysWhen DEF Clean, Quietly
    <2>4. /\ Quietly /\ ~host'.err /\ ~hist'.hurt /\ ~hist'.late
          /\ drv'.op = drv.op /\ drv'.ver = drv.ver /\ host'.run = host.run /\ host'.width = host.width
          /\ card'.ver = card.ver /\ card'.width = card.width /\ card'.blklen = card.blklen
          /\ drv'.pc = "cmd41" /\ card' \in After(55, 0)
      BY <2>1, <2>3, SentCleanly
    <2>5. card'.state = card.state /\ card'.app /\ card'.rca = card.rca
      BY <2>3, <2>4, <1>s, AfterChanges
    <2>6. drv.op \in InitOps
      BY <2>1 DEF SdInv, OpFits
    <2> QED BY <2>1, <2>4, <2>5, <2>6 DEF Quietly, RegisterComes
  <1>2. CASE Cmd2
    <2>1. drv.pc = "cmd2" /\ Send(2, 0, "cmd3", "cmd3") /\ 2 \notin Forgiven /\ drv.op \in InitOps
      BY <1>2 DEF Cmd2, Forgiven, SdInv, OpFits, Named
    <2> QED BY <2>1, SentCleanly DEF Quietly, RegisterComes
  <1>3. CASE Cmd9
    <2>1. /\ drv.pc = "cmd9" /\ Send(9, drv.rca, "cmd7", "cmd7") /\ 9 \notin Forgiven
          /\ drv.op \in InitOps
      BY <1>3 DEF Cmd9, Forgiven, SdInv, OpFits, Named
    <2> QED BY <2>1, SentCleanly DEF Quietly, RegisterComes
  <1>4. CASE Cmd7
    <2>1. /\ drv.pc = "cmd7" /\ Send(7, drv.rca, "scr16", "failed") /\ 7 \notin Forgiven
          /\ drv.op \in InitOps
      BY <1>4 DEF Cmd7, Forgiven, SdInv, OpFits, Named
    <2>2. card' \in After(7, drv.rca) => card'.state = "tran"
      <3>1. DOMAIN PlainCard(card) = CardFields
        BY <1>s DEF PlainCard
      <3> QED BY <3>1, AfterIs DEF CardFields
    <2> QED BY <2>1, <2>2, SentCleanly DEF Quietly, RegisterComes
  <1>5. CASE Scr16
    <2>1. /\ drv.pc = "scr16" /\ Send(16, 8, "scr55", "version") /\ 16 \notin Forgiven
          /\ drv.op \in InitOps
      BY <1>5 DEF Scr16, Forgiven, SdInv, OpFits, Named
    <2>2. card'.state = card.state
      <3>1. Obeys(16, 8) /\ card' \in After(16, 8) => card'.state = card.state
        BY <1>s, AfterChanges
      <3> QED BY <2>1, <1>s, <3>1, SentCleanly, PlainIs
    <2> QED BY <2>1, <2>2, SentCleanly DEF Quietly, RegisterComes
  <1>6. CASE Scr55
    <2>1. drv.pc = "scr55" /\ Send(55, drv.rca, "scr51", "version") /\ drv.op \in InitOps
      BY <1>6 DEF Scr55, SdInv, OpFits, Named
    <2>2. faults = MaxFaults
      BY <2>1, SentFields, <1>s
    <2>3. Obeys(55, drv.rca)
      <3>1. card.rca = drv.rca
        BY <2>1 DEF SdInv, Agreed, Ends
      <3> QED BY <2>1, <2>2, <3>1, ObeysWhen DEF Clean, Quietly
    <2>4. /\ Quietly /\ ~host'.err /\ ~hist'.hurt /\ ~hist'.late
          /\ drv'.op = drv.op /\ drv'.ver = drv.ver /\ host'.run = host.run /\ host'.width = host.width
          /\ card'.ver = card.ver /\ card'.width = card.width
          /\ drv'.pc = "scr51" /\ card' \in After(55, drv.rca)
      BY <2>1, <2>3, SentCleanly
    <2>5. card'.state = card.state
      BY <2>3, <2>4, <1>s, AfterChanges
    <2> QED BY <2>1, <2>4, <2>5 DEF Quietly, RegisterComes
  <1>7. CASE Speed16
    <2>1. /\ drv.pc = "speed16" /\ Send(16, 64, "speed6", "failed") /\ 16 \notin Forgiven
          /\ drv.op \in InitOps
      BY <1>7 DEF Speed16, Forgiven, SdInv, OpFits, Named
    <2>2. faults = MaxFaults
      BY <2>1, SentFields, <1>s
    <2>3. Obeys(16, 64)
      BY <2>1, <2>2, ObeysWhen DEF Clean, Quietly
    <2>4. /\ Quietly /\ ~host'.err /\ ~hist'.hurt /\ ~hist'.late
          /\ drv'.op = drv.op /\ drv'.ver = drv.ver /\ host'.run = host.run /\ host'.width = host.width
          /\ card'.ver = card.ver /\ card'.width = card.width
          /\ drv'.pc = "speed6" /\ card' \in After(16, 64)
      BY <2>1, <2>3, SentCleanly
    <2>5. card'.state = card.state
      BY <2>3, <2>4, <1>s, AfterChanges
    <2> QED BY <2>1, <2>4, <2>5 DEF Quietly, RegisterComes
  <1>8. CASE Width55
    <2>1. drv.pc = "width55" /\ Send(55, drv.rca, "width6", "width6") /\ drv.op \in InitOps
      BY <1>8 DEF Width55, SdInv, OpFits, Named
    <2>2. faults = MaxFaults
      BY <2>1, SentFields, <1>s
    <2>3. Obeys(55, drv.rca)
      <3>1. card.rca = drv.rca
        BY <2>1 DEF SdInv, Agreed, Ends
      <3> QED BY <2>1, <2>2, <3>1, ObeysWhen DEF Clean, Quietly
    <2>4. /\ Quietly /\ ~host'.err /\ ~hist'.hurt /\ ~hist'.late
          /\ drv'.op = drv.op /\ drv'.ver = drv.ver /\ host'.run = host.run /\ host'.width = host.width
          /\ card'.ver = card.ver /\ card'.width = card.width
          /\ drv'.pc = "width6" /\ card' \in After(55, drv.rca)
      BY <2>1, <2>3, SentCleanly
    <2>5. card'.state = card.state
      BY <2>3, <2>4, <1>s, AfterChanges
    <2> QED BY <2>1, <2>4, <2>5 DEF Quietly, RegisterComes
  <1>9. CASE Cmd16
    <2>1. /\ drv.pc = "cmd16" /\ Send(16, BlockSize, "ready", "failed") /\ 16 \notin Forgiven
          /\ drv.op \in InitOps
      BY <1>9 DEF Cmd16, Forgiven, SdInv, OpFits, Last
    <2>2. faults = MaxFaults
      BY <2>1, SentFields, <1>s
    <2>3. Obeys(16, BlockSize)
      BY <2>1, <2>2, ObeysWhen DEF Clean, Quietly
    <2>4. /\ Quietly /\ ~host'.err /\ ~hist'.hurt /\ ~hist'.late
          /\ drv'.op = drv.op /\ drv'.ver = drv.ver /\ host'.run = host.run /\ host'.width = host.width
          /\ card'.ver = card.ver /\ card'.width = card.width
          /\ drv'.pc = "ready" /\ card' \in After(16, BlockSize)
      BY <2>1, <2>3, SentCleanly
    <2>5. card'.blklen = BlockSize
      BY <2>3, <2>4, <1>s, AfterChanges
    <2> QED BY <2>1, <2>4, <2>5 DEF Quietly, RegisterComes
  <1> QED BY <1>1, <1>2, <1>3, <1>4, <1>5, <1>6, <1>7, <1>8, <1>9

LEMMA IdentifyClean == SdInv /\ Fields /\ Clean /\ Identify => Clean'
  <1> SUFFICES ASSUME SdInv, Fields, Clean, Identify, faults' = MaxFaults
               PROVE  Quietly' /\ RegisterComes'
    BY DEF Clean
  <1>s. Shape /\ drv.pc = "identify" /\ drv.op \in InitOps
    BY DEF SdInv, Identify, OpFits, First
  <1>1. PICK o \in Outcomes(0, 0) : card' = o.card /\ faults' = faults - o.cost
    BY DEF Identify
  <1>2. o.cost = 0 /\ faults = MaxFaults
    <2>1. o.cost \in {0, 1} /\ faults \in 0..MaxFaults /\ MaxFaults \in Nat
      BY <1>s, OutcomeCards, BoundAssumption DEF Shape, Fields, Typed, Cmds
    <2> QED BY <1>1, <2>1
  <1>3. o.card \in After(0, 0)
    <2>1. Obeys(0, 0)
      BY DEF Obeys
    <2> QED BY <1>2, <2>1, OutcomeCases DEF Answered, Missed, Cmds
  <1>4. /\ card'.state = "idle" /\ card'.rca = 0 /\ card'.width = 1 /\ card'.blklen = BlockSize
        /\ card'.ver = card.ver
    <2>1. After(0, 0) = {[PlainCard(card) EXCEPT !.state = "idle", !.rca = 0, !.width = 1,
                                                 !.blklen = BlockSize]}
      BY DEF After
    <2>2. DOMAIN PlainCard(card) = CardFields /\ PlainCard(card).ver = card.ver
      BY <1>s DEF PlainCard, Shape, CardFields
    <2> QED BY <1>1, <1>3, <2>1, <2>2 DEF CardFields
  <1>5. /\ drv'.pc = "cmd55" /\ drv'.op = drv.op /\ drv'.ver = drv.ver
        /\ ~host'.err /\ host'.width = 1 /\ hist' = hist
    BY <1>s DEF Identify, Shape, DrvFields
  <1> QED BY <1>2, <1>4, <1>5, <1>s
          DEF Clean, Quietly, RegisterComes, First, Addressed, Moving, InitOps

LEMMA Cmd41Clean == SdInv /\ Fields /\ Clean /\ Cmd41 => Clean'
  <1> SUFFICES ASSUME SdInv, Fields, Clean, Cmd41, faults' = MaxFaults
               PROVE  Quietly' /\ RegisterComes'
    BY DEF Clean
  <1>s. Shape /\ drv.pc = "cmd41" /\ drv.op \in InitOps
    BY DEF SdInv, Cmd41, OpFits, First
  <1>1. PICK o \in Outcomes(41, 0) :
          LET up == o.answered /\ o.card.state = "ready"
              last == drv.ocr + 1 = OcrTries
              stop == drv.tries + 1 > IdentifyTries
          IN /\ Issue([o EXCEPT !.err = IF up \/ last THEN FALSE ELSE @], 41)
             /\ drv' = IF up THEN [drv EXCEPT !.pc = "cmd2", !.mode = card.kind]
                       ELSE IF ~last THEN [drv EXCEPT !.pc = "cmd55", !.ocr = @ + 1]
                       ELSE [drv EXCEPT !.pc = IF stop THEN "failed" ELSE "identify",
                                       !.tries = @ + 1]
    BY DEF Cmd41
  <1>2. /\ DOMAIN o = {"card", "answered", "cost", "ok", "err"} /\ o.cost \in {0, 1}
        /\ o.card.ver = card.ver /\ o.card.width = card.width /\ o.card.blklen = card.blklen
    BY <1>s, OutcomeCases, OutcomeCards DEF Shape, Fields, Cmds
  <1>3. PICK b : b \in {FALSE, o.err} /\ Issue([o EXCEPT !.err = b], 41)
    BY <1>1
  <1>4. /\ card' = o.card /\ faults' = faults - o.cost /\ host'.width = host.width
        /\ host'.err = b /\ hist'.late = hist.late /\ (hist'.hurt <=> hist.hurt \/ o.cost = 1)
    BY <1>s, <1>2, <1>3 DEF Issue, Shape
  <1>5. o.cost = 0 /\ o.cost # 1 /\ faults = MaxFaults
    <2>1. faults \in 0..MaxFaults /\ MaxFaults \in Nat
      BY BoundAssumption DEF Fields, Typed
    <2> QED BY <1>2, <1>4, <2>1
  <1>6. Quietly /\ card.state = "idle" /\ card.app /\ card.rca = 0
    BY <1>5, <1>s DEF Clean, Quietly
  <1>7. Answered(o, 41, 0)
    <2>1. Obeys(41, 0)
      BY <1>6, ObeysWhen
    <2> QED BY <1>5, <2>1, OutcomeCases DEF Missed, Cmds
  <1>8. ~b /\ card'.rca = 0 /\ card'.state \in {"idle", "ready"} /\ o.answered
    <2>1. ~o.err /\ o.answered /\ o.card \in After(41, 0)
      BY <1>6, <1>7 DEF Answered, Quietly
    <2>2. /\ DOMAIN PlainCard(card) = CardFields /\ PlainCard(card).state = "idle"
          /\ PlainCard(card).rca = 0
      BY <1>6, <1>s DEF PlainCard, Shape, CardFields
    <2>3. /\ [PlainCard(card) EXCEPT !.state = "ready"].rca = PlainCard(card).rca
          /\ [PlainCard(card) EXCEPT !.state = "ready"].state = "ready"
      BY <2>2 DEF CardFields
    <2>4. o.card \in {PlainCard(card), [PlainCard(card) EXCEPT !.state = "ready"]}
      BY <2>1, AfterIs
    <2>5. o.card.rca = 0 /\ o.card.state \in {"idle", "ready"}
      <3> DEFINE P == PlainCard(card)
                 R == [PlainCard(card) EXCEPT !.state = "ready"]
      <3>1. P.rca = 0 /\ P.state = "idle" /\ R.rca = 0 /\ R.state = "ready" /\ o.card \in {P, R}
        BY <2>2, <2>3, <2>4
      <3> HIDE DEF P, R
      <3> QED BY <3>1
    <2>6. ~b
      BY <1>3, <2>1
    <2> QED BY <1>4, <2>1, <2>5, <2>6
  <1>9. /\ drv'.op = drv.op /\ drv'.ver = drv.ver /\ drv'.pc \in {"cmd2", "cmd55", "failed", "identify"}
        /\ drv'.pc = "cmd55" => card'.state # "ready"
    BY <1>1, <1>4, <1>8, <1>s DEF Shape, DrvFields
  <1> QED BY <1>2, <1>4, <1>5, <1>6, <1>8, <1>9, <1>s
          DEF Quietly, RegisterComes, First, Addressed, Moving, InitOps

LEMMA Cmd3Clean == SdInv /\ Fields /\ Clean /\ Cmd3 => Clean'
  <1> SUFFICES ASSUME SdInv, Fields, Clean, Cmd3, faults' = MaxFaults
               PROVE  Quietly' /\ RegisterComes'
    BY DEF Clean
  <1>s. Shape /\ drv.pc = "cmd3" /\ drv.op \in InitOps
    BY DEF SdInv, Cmd3, OpFits, Named
  <1>1. PICK o \in Outcomes(3, 0) : Issue(o, 3) /\ \E rca : drv' = [drv EXCEPT !.pc = "cmd9", !.rca = rca]
    BY DEF Cmd3
  <1>2. /\ o.cost \in {0, 1} /\ o.card.ver = card.ver /\ o.card.width = card.width
        /\ o.card.blklen = card.blklen
    BY <1>s, OutcomeCards DEF Shape, Fields, Cmds
  <1>3. /\ card' = o.card /\ faults' = faults - o.cost /\ host'.width = host.width
        /\ host'.err = o.err /\ hist'.late = hist.late /\ (hist'.hurt <=> hist.hurt \/ o.cost = 1)
    BY <1>s, <1>1 DEF Issue, Shape
  <1>4. o.cost = 0 /\ o.cost # 1 /\ faults = MaxFaults
    <2>1. faults \in 0..MaxFaults /\ MaxFaults \in Nat
      BY BoundAssumption DEF Fields, Typed
    <2> QED BY <1>2, <1>3, <2>1
  <1>5. ~o.err
    BY OutcomeCases DEF Answered, Missed, Cmds, Forgiven
  <1>6. drv'.pc = "cmd9" /\ drv'.op = drv.op /\ drv'.ver = drv.ver
    BY <1>1, <1>s DEF Shape, DrvFields
  <1> QED BY <1>2, <1>3, <1>4, <1>5, <1>6, <1>s
          DEF Clean, Quietly, RegisterComes, First, Addressed, Moving, InitOps

\* The register's block is under way when the card obeyed.
LEMMA RegisterSent ==
  ASSUME SdInv, Fields, Clean, faults' = MaxFaults,
         NEW c \in {51, 6}, NEW op \in {"scr", "switch"}, NEW no \in {"version", "failed"},
         SendData(c, 0, OneBlock(op), ReadRegister(op), GoTo(no))
  PROVE  /\ Quietly /\ ~host'.err /\ ~hist'.hurt /\ ~hist'.late
         /\ drv'.ver = drv.ver /\ card'.ver = card.ver /\ host'.width = host.width
         /\ IF Obeys(c, 0)
            THEN /\ card' \in After(c, 0) /\ drv'.pc = "wait" /\ drv'.op = op
                 /\ host'.run = OneBlock(op) /\ host'.port = <<>> /\ ~host'.ready
            ELSE drv'.pc = no /\ drv'.op = drv.op /\ card' = PlainCard(card)
  <1>s. Shape /\ c \in Cmds \ ({0} \cup Forgiven)
    BY DEF SdInv, Cmds, Forgiven
  <1> DEFINE yes == ReadRegister(op)
             stay == GoTo(no)
  <1>1. /\ yes.pc = "wait" /\ yes.op = op /\ yes.ver = drv.ver
        /\ stay.pc = no /\ stay.op = drv.op /\ stay.ver = drv.ver
    BY <1>s DEF ReadRegister, GoTo, Shape, DrvFields
  <1>2. SendData(c, 0, OneBlock(op), yes, stay) /\ yes # stay
    BY <1>1
  <1> HIDE DEF yes, stay
  <1>3. /\ host'.width = host.width /\ card'.ver = card.ver /\ hist'.late = hist.late
        /\ faults = MaxFaults /\ (hist'.hurt <=> hist.hurt)
        /\ \/ drv' = stay
           \/ /\ host'.run = OneBlock(op) /\ host'.port = <<>>
              /\ (host'.ready <=> OneBlock(op).dir = "write" /\ OneBlock(op).left > 0)
        /\ IF Obeys(c, 0) THEN card' \in After(c, 0) /\ (~host.err => ~host'.err /\ drv' = yes)
           ELSE card' = PlainCard(card) /\ ~host'.err /\ drv' = stay
    <2> HIDE DEF SendData
    <2> QED BY <1>s, <1>2, SentDataFields
  <1>4. Quietly /\ ~host.err /\ ~hist.hurt /\ ~hist.late
    BY <1>3 DEF Clean, Quietly
  <1>5. OneBlock(op).dir # "write"
    BY DEF OneBlock
  <1> QED BY <1>1, <1>2, <1>3, <1>4, <1>5

LEMMA Scr51Clean == SdInv /\ Fields /\ Clean /\ Scr51 => Clean'
  <1> SUFFICES ASSUME SdInv, Fields, Clean, Scr51, faults' = MaxFaults
               PROVE  Quietly' /\ RegisterComes'
    BY DEF Clean
  <1>s. /\ Shape /\ drv.pc = "scr51" /\ drv.op \in InitOps
        /\ SendData(51, 0, OneBlock("scr"), ReadRegister("scr"), GoTo("version"))
    BY DEF SdInv, Scr51, OpFits, Named, Addressed
  <1>1. /\ Quietly /\ ~host'.err /\ ~hist'.hurt /\ ~hist'.late
        /\ drv'.ver = drv.ver /\ card'.ver = card.ver /\ host'.width = host.width
        /\ IF Obeys(51, 0)
           THEN /\ card' \in After(51, 0) /\ drv'.pc = "wait" /\ drv'.op = "scr"
                /\ host'.run = OneBlock("scr") /\ host'.port = <<>> /\ ~host'.ready
           ELSE drv'.pc = "version" /\ drv'.op = drv.op /\ card' = PlainCard(card)
    <2> HIDE DEF SendData
    <2> QED BY <1>s, RegisterSent
  <1>2. card'.width = card.width
    <2>1. DOMAIN PlainCard(card) = CardFields /\ PlainCard(card).width = card.width
      BY <1>s DEF PlainCard, Shape, CardFields
    <2> QED BY <1>1, <2>1, AfterIs DEF CardFields
  <1>3. /\ OneBlock("scr").left = 1 /\ OneBlock("scr").dir = "scr" /\ OneBlock("scr") # Idle
    BY DEF OneBlock, Idle
  <1> QED BY <1>1, <1>2, <1>3, <1>s, PlainIs
          DEF Quietly, RegisterComes, First, Addressed, Moving, InitOps

LEMMA Speed6Clean == SdInv /\ Fields /\ Clean /\ Speed6 => Clean'
  <1> SUFFICES ASSUME SdInv, Fields, Clean, Speed6, faults' = MaxFaults
               PROVE  Quietly' /\ RegisterComes'
    BY DEF Clean
  <1>s. /\ Shape /\ drv.pc = "speed6" /\ drv.op \in InitOps /\ ~card.app
        /\ SendData(6, 0, OneBlock("switch"), ReadRegister("switch"), GoTo("failed"))
    BY DEF SdInv, Speed6, OpFits, Named, Addressed, Agreed
  <1>1. /\ Quietly /\ ~host'.err /\ ~hist'.hurt /\ ~hist'.late
        /\ drv'.ver = drv.ver /\ card'.ver = card.ver /\ host'.width = host.width
        /\ IF Obeys(6, 0)
           THEN /\ card' \in After(6, 0) /\ drv'.pc = "wait" /\ drv'.op = "switch"
                /\ host'.run = OneBlock("switch") /\ host'.port = <<>> /\ ~host'.ready
           ELSE drv'.pc = "failed" /\ drv'.op = drv.op /\ card' = PlainCard(card)
    <2> HIDE DEF SendData
    <2> QED BY <1>s, RegisterSent
  <1>2. Obeys(6, 0)
    <2>1. card.state = "tran" /\ drv.ver = card.ver /\ drv.ver # 0 /\ card.ver \in 0..2
      BY <1>1, <1>s DEF Quietly, Addressed, Fields, CardTyped
    <2> QED BY <2>1, ObeysWhen
  <1>3. card'.width = card.width
    <2>1. DOMAIN PlainCard(card) = CardFields /\ PlainCard(card).width = card.width
      BY <1>s DEF PlainCard, Shape, CardFields
    <2> QED BY <1>1, <1>2, <1>s, <2>1, AfterIs DEF CardFields
  <1>4. /\ OneBlock("switch").left = 1 /\ OneBlock("switch").dir = "switch"
        /\ OneBlock("switch") # Idle
    BY DEF OneBlock, Idle
  <1> QED BY <1>1, <1>2, <1>3, <1>4, <1>s
          DEF Quietly, RegisterComes, First, Addressed, Moving, InitOps

LEMMA VersionClean == SdInv /\ Clean /\ Version => Clean'
  <1> SUFFICES ASSUME SdInv, Clean, Version, faults' = MaxFaults
               PROVE  Quietly' /\ RegisterComes'
    BY DEF Clean
  <1>s. Shape /\ drv.pc = "version" /\ drv.op \in InitOps
    BY DEF SdInv, Version, OpFits, Named, Addressed
  <1>1. /\ drv'.pc = (IF drv.ver \in {1, 2} THEN "speed16" ELSE "assert")
        /\ drv'.op = drv.op /\ drv'.ver = drv.ver
        /\ host' = host /\ card' = card /\ hist' = hist /\ faults = MaxFaults
    BY <1>s DEF Version, GoTo, Shape, DrvFields
  <1>2. drv.ver \in {1, 2} => drv.ver # 0
    OBVIOUS
  <1> QED BY <1>1, <1>2, <1>s
          DEF Clean, Quietly, RegisterComes, First, Addressed, Moving, InitOps

LEMMA Width6Clean == SdInv /\ Fields /\ Clean /\ Width6 => Clean'
  <1> SUFFICES ASSUME SdInv, Fields, Clean, Width6, faults' = MaxFaults
               PROVE  Quietly' /\ RegisterComes'
    BY DEF Clean
  <1>s. Shape /\ drv.pc = "width6" /\ drv.op \in InitOps /\ (host.err \/ card.app)
    BY DEF SdInv, Width6, OpFits, Named, Addressed, Agreed
  <1>1. PICK o \in Outcomes(6, 4) :
          /\ card' = [o.card EXCEPT !.state = IF @ = "data" THEN "tran" ELSE @]
          /\ faults' = faults - o.cost
          /\ host' = [host EXCEPT !.err = o.err, !.width = IF o.ok THEN 4 ELSE @]
          /\ drv' = IF o.ok THEN [drv EXCEPT !.pc = "cmd13", !.op = "init"] ELSE GoTo("failed")
          /\ hist' = hist
    BY DEF Width6
  <1>2. o.cost = 0 /\ faults = MaxFaults
    <2>1. o.cost \in {0, 1} /\ faults \in 0..MaxFaults /\ MaxFaults \in Nat
      BY <1>s, OutcomeCards, BoundAssumption DEF Shape, Fields, Typed, Cmds
    <2> QED BY <1>1, <2>1
  <1>3. Quietly /\ ~host.err /\ card.app /\ card.state = "tran"
    BY <1>2, <1>s DEF Clean, Quietly, Addressed
  <1>4. o.ok /\ ~o.err /\ o.card = [PlainCard(card) EXCEPT !.width = 4]
    <2>1. Obeys(6, 4)
      BY <1>3, ObeysWhen
    <2>2. Answered(o, 6, 4)
      BY <1>2, <2>1, OutcomeCases DEF Missed, Cmds
    <2> QED BY <1>3, <2>2, AfterIs DEF Answered, Forgiven
  <1>5. card'.width = 4 /\ card'.state = "tran" /\ card'.ver = card.ver
    <2>1. /\ DOMAIN PlainCard(card) = CardFields /\ PlainCard(card).ver = card.ver
          /\ PlainCard(card).state = "tran"
      BY <1>3, <1>s DEF PlainCard, Shape, CardFields
    <2>2. /\ DOMAIN o.card = CardFields /\ o.card.ver = card.ver /\ o.card.state = "tran"
          /\ o.card.width = 4
      BY <1>4, <2>1 DEF CardFields
    <2> QED BY <1>1, <2>2 DEF CardFields
  <1>6. /\ drv'.pc = "cmd13" /\ drv'.op = "init" /\ drv'.ver = drv.ver
        /\ ~host'.err /\ host'.width = 4
    BY <1>1, <1>4, <1>s DEF Shape, DrvFields
  <1> QED BY <1>1, <1>3, <1>5, <1>6
          DEF Quietly, RegisterComes, First, Addressed, Moving, InitOps

LEMMA Cmd13Clean == SdInv /\ Fields /\ Clean /\ Cmd13 => Clean'
  <1> SUFFICES ASSUME SdInv, Fields, Clean, Cmd13, faults' = MaxFaults
               PROVE  Quietly' /\ RegisterComes'
    BY DEF Clean
  <1>s. Shape /\ drv.pc = "cmd13" /\ drv.op \in {"init", "read", "write"}
    BY DEF SdInv, Cmd13, OpFits
  <1>1. PICK o \in Outcomes(13, drv.rca) :
          /\ Issue(o, 13)
          /\ drv' = IF o.ok /\ o.card.state \in {"rcv", "prg"} THEN drv
                    ELSE IF o.ok /\ o.card.state = "tran"
                         THEN GoTo(IF drv.op = "init" THEN "cmd16" ELSE "command")
                    ELSE IF drv.op = "init" THEN GoTo("failed") ELSE Return(3)
    BY DEF Cmd13
  <1>2. /\ o.cost \in {0, 1} /\ o.card.ver = card.ver /\ o.card.width = card.width
        /\ o.card.blklen = card.blklen
    BY <1>s, OutcomeCards DEF Shape, Fields, Cmds
  <1>3. /\ card' = o.card /\ faults' = faults - o.cost /\ host'.width = host.width
        /\ host'.err = o.err /\ hist'.late = hist.late /\ (hist'.hurt <=> hist.hurt \/ o.cost = 1)
    BY <1>s, <1>1 DEF Issue, Shape
  <1>4. o.cost = 0 /\ o.cost # 1 /\ faults = MaxFaults
    <2>1. faults \in 0..MaxFaults /\ MaxFaults \in Nat
      BY BoundAssumption DEF Fields, Typed
    <2> QED BY <1>2, <1>3, <2>1
  <1>5. ~o.err
    BY OutcomeCases DEF Answered, Missed, Cmds, Forgiven
  <1>6. drv.op = "init" => o.ok /\ o.card.state = "tran"
    <2> SUFFICES ASSUME drv.op = "init" PROVE o.ok /\ o.card.state = "tran"
      OBVIOUS
    <2>1. card.state = "tran" /\ card.rca = drv.rca /\ ~host.err
      BY <1>4, <1>s DEF Clean, Quietly, SdInv, Agreed, InitOps, First, Ends
    <2>2. Obeys(13, drv.rca)
      BY <2>1 DEF Obeys, Selected
    <2>3. Answered(o, 13, drv.rca)
      BY <1>4, <2>2, OutcomeCases DEF Missed, Cmds
    <2>4. o.card = PlainCard(card)
      BY <2>3, AfterIs DEF Answered
    <2> QED BY <2>1, <2>3, <2>4, <1>s, PlainIs DEF Answered
  <1>7. /\ drv'.op = drv.op /\ drv'.ver = drv.ver
        /\ drv.op = "init" => drv'.pc = "cmd16"
        /\ drv.op # "init" => drv'.pc \in {"cmd13", "command", "returned"}
    <2>1. o.card.state = "tran" => o.card.state \notin {"rcv", "prg"}
      OBVIOUS
    <2> QED BY <1>1, <1>6, <1>s, <2>1 DEF GoTo, Return, Shape, DrvFields
  <1> QED BY <1>2, <1>3, <1>4, <1>5, <1>6, <1>7, <1>s
          DEF Clean, Quietly, RegisterComes, First, Addressed, Moving, InitOps

LEMMA CommandClean == SdInv /\ Fields /\ Clean /\ Command => Clean'
  <1> SUFFICES ASSUME SdInv, Fields, Clean, Command, faults' = MaxFaults
               PROVE  Quietly' /\ RegisterComes'
    BY DEF Clean
  <1> DEFINE run == [dir |-> drv.op, at |-> drv.start, left |-> drv.blocks,
                     multi |-> ~(drv.blocks = 1)]
  <1>1. /\ drv.op \in {"read", "write"} /\ drv'.op = drv.op /\ drv'.ver = drv.ver
        /\ drv'.pc \in {"wait", "complete", "returned"}
        /\ host'.width = host.width /\ card'.ver = card.ver /\ card'.width = card.width
        /\ card'.blklen = card.blklen /\ hist'.late = hist.late
        /\ drv'.pc = "returned" \/ host'.run = run
        /\ faults = MaxFaults /\ (hist'.hurt <=> hist.hurt) /\ (~host.err => ~host'.err)
    BY CommandIs DEF FirstWait
  <1>2. run # Idle
    <2>1. run.dir = drv.op /\ Idle.dir = "none"
      BY DEF Idle
    <2> HIDE DEF run
    <2> QED BY <1>1, <2>1
  <1> HIDE DEF run
  <1>3. Quietly /\ drv.pc = "command"
    BY <1>1 DEF Clean, Command
  <1> QED BY <1>1, <1>2, <1>3 DEF Quietly, RegisterComes, First, Addressed, Moving, InitOps

\* The waits of the driver: what it waits for is there, or comes.
LEMMA WaitBufferClean == SdInv /\ Clean /\ WaitBuffer => Clean'
  <1> SUFFICES ASSUME SdInv, Clean, WaitBuffer, faults' = MaxFaults
               PROVE  Quietly' /\ RegisterComes'
    BY DEF Clean
  <1>1. /\ drv.pc = "wait" /\ drv'.pc = "move" /\ drv'.op = drv.op /\ drv'.ver = drv.ver
        /\ host.ready /\ host'.run = host.run /\ host'.port = host.port /\ host'.err = host.err
        /\ host'.width = host.width /\ host'.tc = host.tc
        /\ card' = card /\ hist' = hist /\ faults' = faults
    BY DEF WaitBuffer, GoTo, SdInv, Shape, DrvFields
  <1> QED BY <1>1 DEF Clean, Quietly, RegisterComes, First, Addressed, Moving, InitOps

LEMMA NoWaitWithoutFault ==
  SdInv /\ Fields /\ Transfers /\ Quietly /\ RegisterComes =>
    ~WaitBufferRunsOut /\ ~WaitCompleteRunsOut
  <1> SUFFICES ASSUME SdInv, Fields, Transfers, Quietly, RegisterComes
               PROVE  ~WaitBufferRunsOut /\ ~WaitCompleteRunsOut
    OBVIOUS
  <1>1. ASSUME WaitBufferRunsOut PROVE FALSE
    <2>1. drv.pc = "wait" /\ ~host.ready /\ ~BufferWillBeReady
      BY <1>1 DEF WaitBufferRunsOut
    <2>2. CASE drv.op \in {"read", "write"}
      <3>1. Good
        BY <2>1, <2>2 DEF Good, Quietly, Moving
      <3> QED BY <1>1, <3>1, NoWaitForBlock
    <2>3. CASE drv.op \in {"scr", "switch"}
      BY <2>1, <2>3 DEF RegisterComes, BufferWillBeReady
    <2> QED BY <2>1, <2>2, <2>3 DEF SdInv, OpFits
  <1>2. ASSUME WaitCompleteRunsOut PROVE FALSE
    BY <1>2 DEF WaitCompleteRunsOut, Quietly, Moving
  <1> QED BY <1>1, <1>2

LEMMA MoveBlockClean == SdInv /\ Fields /\ Clean /\ MoveBlock => Clean'
  <1> SUFFICES ASSUME SdInv, Fields, Clean, MoveBlock, faults' = MaxFaults
               PROVE  Quietly' /\ RegisterComes'
    BY DEF Clean
  <1> DEFINE left == drv.remain - 1
             word == IF host.port = <<>> THEN Stale ELSE host.port[1]
  <1>1. /\ drv.pc = "move" /\ drv'.pc = (IF left = 0 THEN "complete" ELSE "wait")
        /\ drv'.op = drv.op /\ drv'.ver = drv.ver
        /\ drv.op # "write" => drv'.buf = Append(drv.buf, word) /\ host'.port = <<>>
        /\ host'.run = host.run /\ host'.err = host.err
        /\ host'.width = host.width /\ host'.tc = host.tc
        /\ card' = card /\ hist' = hist /\ faults' = faults
    BY DEF MoveBlock, SdInv, Shape, DrvFields
  <1>2. Quietly /\ RegisterComes
    BY <1>1 DEF Clean
  <1>3. Quietly'
    BY <1>1, <1>2 DEF Quietly, First, Addressed, Moving, InitOps
  <1>4. RegisterComes'
    <2> SUFFICES ASSUME drv.op \in {"scr", "switch"} PROVE RegisterComes'
      BY <1>1 DEF RegisterComes
    <2>1. drv.remain = 1 /\ drv.buf = <<>>
      BY <1>1 DEF Fields, Registers
    <2>2. left = 0
      BY <2>1
    <2>3. /\ host.port # <<>> /\ host.run.left = 0 /\ card.state = "tran"
          /\ drv.op = "scr" => host.port \in {<<>>, <<Scr(card.ver)>>}
      BY <1>1, <1>2 DEF RegisterComes
    <2>4. drv.op = "scr" => word = Scr(card.ver)
      BY <2>3
    <2> HIDE DEF left, word
    <2>5. drv'.buf = <<word>>
      <3>1. Append(<<>>, word) = <<word>>
        OBVIOUS
      <3> QED BY <1>1, <2>1, <3>1
    <2> QED BY <1>1, <2>2, <2>3, <2>4, <2>5 DEF RegisterComes
  <1> QED BY <1>3, <1>4

\* The version SDHC_GetSdScr makes is the card's.
LEMMA WaitCompleteClean == SdInv /\ Fields /\ Clean /\ WaitComplete => Clean'
  <1> SUFFICES ASSUME SdInv, Fields, Clean, WaitComplete, faults' = MaxFaults
               PROVE  Quietly' /\ RegisterComes'
    BY DEF Clean
  <1>s. Shape
    BY DEF SdInv
  <1>1. /\ drv.pc = "complete" /\ drv' \in Finished
        /\ host'.err = host.err /\ host'.width = host.width
        /\ card' = card /\ hist' = hist /\ faults' = faults
    BY <1>s DEF WaitComplete, Shape
  <1>2. Quietly /\ RegisterComes
    BY <1>1 DEF Clean
  <1>3. /\ drv'.op = drv.op
        /\ \/ drv.op = "scr" /\ drv'.pc = "version"
           \/ drv.op = "switch" /\ drv'.pc = "width55"
           \/ drv.op \in {"read", "write"} /\ drv'.pc = "returned"
    BY <1>1, FinishedIs
  <1>4. drv'.ver \in {drv.ver, card.ver}
    <2>1. CASE drv.op = "scr"
      <3>1. drv.buf = <<Scr(card.ver)>>
        BY <1>1, <1>2, <2>1 DEF RegisterComes
      <3>2. /\ drv.buf[1] = Scr(card.ver) /\ Scr(card.ver)[2] = card.ver
            /\ Scr(card.ver) \notin {Stale, Damaged}
        <4>1. Scr(card.ver)[1] = -2 /\ Scr(card.ver)[2] = card.ver /\ Stale[1] = -1 /\ Damaged[1] = -1
          BY DEF Scr, Stale, Damaged
        <4>2. -1 # -2
          OBVIOUS
        <4> QED BY <3>1, <4>1, <4>2
      <3>3. \E v \in {card.ver} : drv' = [drv EXCEPT !.pc = "version", !.ver = v]
        BY <1>1, <2>1, <3>2 DEF Finished
      <3> QED BY <3>3, <1>s DEF Shape, DrvFields
    <2>2. CASE drv.op = "switch"
      BY <1>1, <1>s, <2>2 DEF Finished, GoTo, Shape, DrvFields
    <2>3. CASE drv.op = "read"
      BY <1>1, <1>s, <2>3 DEF Finished, Return, Shape, DrvFields
    <2>4. CASE drv.op = "write"
      BY <1>1, <1>s, <2>4 DEF Finished, Return, Shape, DrvFields
    <2> QED BY <1>3, <2>1, <2>2, <2>3, <2>4
  <1>5. drv.op \in {"scr", "switch"} => card.state = "tran"
    BY <1>1, <1>2 DEF RegisterComes
  <1> QED BY <1>1, <1>2, <1>3, <1>4, <1>5
          DEF Quietly, RegisterComes, First, Addressed, Moving, InitOps

\* The card's steps.
LEMMA CardSendsClean == SdInv /\ Fields /\ Clean /\ CardSends => Clean'
  <1> SUFFICES ASSUME SdInv, Fields, Clean, CardSends, faults' = MaxFaults
               PROVE  Quietly' /\ RegisterComes'
    BY DEF Clean
  <1>s. Shape
    BY DEF SdInv
  <1>1. /\ host.run.dir \in {"read", "scr", "switch"} /\ host.run.left > 0 /\ host.port = <<>>
        /\ host'.run = Moved /\ host'.port = <<Content>> /\ host'.ready
        /\ host'.err = host.err /\ host'.width = host.width
        /\ drv' = drv /\ faults' = faults /\ hist' = hist
    BY <1>s DEF CardSends, Shape
  <1>2. /\ card'.ver = card.ver /\ card'.width = card.width /\ card'.blklen = card.blklen
        /\ card'.state = (IF host.run.left = 1 THEN "tran" ELSE card.state)
    BY <1>s DEF CardSends, Shape, CardFields
  <1>3. Quietly /\ RegisterComes
    BY <1>1 DEF Clean
  <1>4. host.run # Idle /\ Moved # Idle
    <2>1. Moved.dir = host.run.dir /\ Idle.dir = "none"
      BY MovedIs DEF Idle
    <2> QED BY <1>1, <2>1
  <1>5. drv.pc \notin First
    BY <1>4 DEF Fields, Identified
  <1>6. Quietly'
    BY <1>1, <1>2, <1>3, <1>4, <1>5 DEF Quietly, First, Addressed, Moving, InitOps
  <1>7. RegisterComes'
    <2> SUFFICES ASSUME drv.op \in {"scr", "switch"} PROVE RegisterComes'
      BY <1>1 DEF RegisterComes
    <2>1. drv.pc \notin {"move", "complete"}
      BY <1>1, <1>3 DEF RegisterComes
    <2>2. drv.pc = "wait" => host.run.dir = drv.op /\ host.run.left = 1
      BY <1>1, <1>3 DEF RegisterComes
    <2>3. drv.pc = "wait" => Moved.dir = drv.op /\ Moved.left = 0
      BY <2>2, MovedIs
    <2>4. drv.pc = "wait" /\ drv.op = "scr" => Content = Scr(card.ver)
      BY <2>2 DEF Content
    <2>5. <<Content>> # <<>>
      OBVIOUS
    <2> QED BY <1>1, <1>2, <2>1, <2>2, <2>3, <2>4, <2>5 DEF RegisterComes
  <1> QED BY <1>6, <1>7

LEMMA CardTakesClean == SdInv /\ Fields /\ Clean /\ CardTakes => Clean'
  <1> SUFFICES ASSUME SdInv, Fields, Clean, CardTakes, faults' = MaxFaults
               PROVE  Quietly' /\ RegisterComes'
    BY DEF Clean
  <1>1. /\ host.run.dir = "write" /\ host'.run = Moved
        /\ host'.err = host.err /\ host'.width = host.width
        /\ drv' = drv /\ card' = card /\ faults' = faults /\ hist' = hist
    BY DEF CardTakes, SdInv, Shape
  <1>2. Moved # Idle
    <2>1. Moved.dir = host.run.dir /\ Idle.dir = "none"
      BY MovedIs DEF Idle
    <2> QED BY <1>1, <2>1
  <1>3. drv.op \notin InitOps
    BY <1>1 DEF SdInv, Link, RegisterRuns
  <1> QED BY <1>1, <1>2, <1>3
          DEF Clean, Quietly, RegisterComes, First, Addressed, Moving, InitOps

\* The two ends agree: nothing is damaged without a fault.
LEMMA DamageClean == SdInv /\ Fields /\ Clean /\ Damage => Clean'
  <1> SUFFICES ASSUME SdInv, Fields, Clean, Damage, faults' = MaxFaults PROVE FALSE
    BY DEF Clean
  <1>1. /\ host.run.left > 0
        /\ Matching => faults > 0
        /\ faults' = (IF Matching THEN faults - 1 ELSE faults)
    BY DEF Damage
  <1>2. faults \in 0..MaxFaults /\ MaxFaults \in Nat
    BY BoundAssumption DEF Fields, Typed
  <1>3. ~Matching /\ faults = MaxFaults
    BY <1>1, <1>2
  <1>4. Quietly
    BY <1>3 DEF Clean
  <1>5. drv.pc # "identify"
    <2>1. host.run # Idle
      BY <1>1 DEF Idle
    <2> QED BY <2>1 DEF Fields, Identified, First
  <1>6. host.run.dir \in {"read", "write"} => drv.op \notin InitOps
    BY DEF SdInv, Link, RegisterRuns
  <1> QED BY <1>3, <1>4, <1>5, <1>6 DEF Matching, Quietly

LEMMA CompleteClean == SdInv /\ Fields /\ Clean /\ Complete => Clean'
  <1> SUFFICES ASSUME SdInv, Fields, Clean, Complete, faults' = MaxFaults
               PROVE  Quietly' /\ RegisterComes'
    BY DEF Clean
  <1>s. Shape
    BY DEF SdInv
  <1>1. /\ host.run # Idle /\ host.run.left = 0 /\ host.port = <<>>
        /\ host'.run = Idle /\ host'.tc /\ host'.port = <<>>
        /\ host'.err = host.err /\ host'.width = host.width
        /\ drv' = drv /\ faults' = faults /\ hist' = hist
    BY <1>s DEF Complete, Shape
  <1>2. /\ card'.ver = card.ver /\ card'.width = card.width /\ card'.blklen = card.blklen
        /\ card'.state = (IF host.run.dir = "write" THEN "prg" ELSE "tran")
    BY <1>s DEF Complete, Shape, CardFields
  <1>3. Quietly /\ RegisterComes /\ Idle.left = 0
    BY <1>1 DEF Clean, Idle
  <1>4. drv.pc \notin First
    BY <1>1 DEF Fields, Identified
  <1>5. drv.op \in InitOps => card'.state = "tran"
    BY <1>2 DEF SdInv, Link, RegisterRuns
  <1>6. drv.pc \in Addressed \cup {"cmd16"} => drv.op \in InitOps
    BY DEF SdInv, OpFits, Named, Last
  <1>7. Quietly'
    BY <1>1, <1>2, <1>3, <1>4, <1>5, <1>6 DEF Quietly, First, Addressed, Moving, InitOps
  <1>8. RegisterComes'
    BY <1>1, <1>2, <1>3, <1>5 DEF RegisterComes, InitOps
  <1> QED BY <1>7, <1>8

LEMMA ProgrammedClean == SdInv /\ Clean /\ Programmed => Clean'
  <1> SUFFICES ASSUME SdInv, Clean, Programmed, faults' = MaxFaults
               PROVE  Quietly' /\ RegisterComes'
    BY DEF Clean
  <1>1. /\ card.state = "prg" /\ card'.state = "tran" /\ card'.ver = card.ver
        /\ card'.width = card.width /\ card'.blklen = card.blklen
        /\ drv' = drv /\ host' = host /\ faults' = faults /\ hist' = hist
    BY DEF Programmed, SdInv, Shape, CardFields
  <1> QED BY <1>1 DEF Clean, Quietly, RegisterComes, First, Addressed, Moving, InitOps

LEMMA CallClean ==
  ASSUME SdInv, Clean, NEW op \in {"read", "write"}, NEW start, NEW n, Call(op, start, n)
  PROVE  Clean'
  <1>1. /\ drv.pc \in {"ready", "failed", "returned"}
        /\ drv'.pc = "cmd13" /\ drv'.op = op /\ drv'.ver = drv.ver
        /\ ~hist'.hurt /\ hist'.late = hist.late
        /\ host' = host /\ card' = card /\ faults' = faults
    BY DEF Call, SdInv, Shape, DrvFields
  <1>2. drv.pc = "returned" => drv.op \notin InitOps
    BY DEF SdInv, OpFits, InitOps
  <1> QED BY <1>1, <1>2
          DEF Clean, Quietly, RegisterComes, First, Addressed, Moving, InitOps

LEMMA InitClean == Init => Clean
  <1> SUFFICES ASSUME Init PROVE Quietly /\ RegisterComes
    BY DEF Clean
  <1>1. /\ drv.pc = "identify" /\ drv.op = "init" /\ drv.ver = 0
        /\ ~host.err /\ ~hist.hurt /\ ~hist.late /\ card.blklen = BlockSize
    BY DEF Init
  <1> QED BY <1>1 DEF Quietly, RegisterComes, First, Addressed, Moving, InitOps

-----------------------------------------------------------------------------
(* The theorems.                                                           *)

LEMMA InitSd == Init => SdInv
  <1> SUFFICES ASSUME Init PROVE SdInv
    OBVIOUS
  <1>1. /\ drv = [pc |-> "identify", op |-> "init", tries |-> 0, ocr |-> 0, mode |-> "byte",
                  rca |-> 0, ver |-> 0, start |-> 0, blocks |-> 0, remain |-> 0, buf |-> <<>>,
                  ret |-> -1]
        /\ host = [width |-> 1, err |-> FALSE, ready |-> FALSE, tc |-> FALSE, port |-> <<>>,
                   run |-> Idle]
        /\ hist = [calls |-> MaxCalls, hurt |-> FALSE, late |-> FALSE]
        /\ DOMAIN card = CardFields
    BY DEF Init, CardFields
  <1>2. Shape
    BY <1>1 DEF Shape, DrvFields
  <1>3. Link
    BY <1>1 DEF Link, RegisterRuns, Idle
  <1>4. drv.pc = "identify" /\ drv.op = "init" /\ host.run.left = 0
    BY <1>1 DEF Idle
  <1> QED BY <1>2, <1>3, <1>4
  DEF SdInv, OpFits, Pending, Quiet, Agreed, InitMeansReady, First, Addressed, Named, Last,
      Ends, InitOps

LEMMA SdInvStep == SdInv /\ [Next]_vars => SdInv'
  <1> SUFFICES ASSUME SdInv, [Next]_vars PROVE SdInv'
    OBVIOUS
  <1>1. CASE Initialise
    BY <1>1, IdentifyKeeps, Cmd55Keeps, Cmd41Keeps, Cmd2Keeps, Cmd3Keeps, Cmd9Keeps, Cmd7Keeps,
       Scr16Keeps, Scr55Keeps, Scr51Keeps, VersionKeeps, Speed16Keeps, Speed6Keeps, Width55Keeps,
       Width6Keeps, Cmd16Keeps DEF Initialise
  <1>2. CASE Cmd13 \/ Command \/ WaitBuffer \/ WaitBufferRunsOut \/ MoveBlock
             \/ WaitComplete \/ WaitCompleteRunsOut
    BY <1>2, Cmd13Keeps, CommandKeeps, WaitBufferKeeps, WaitBufferRunsOutKeeps, MoveBlockKeeps,
       CompleteKeepsSd
  <1>3. CASE Hardware \/ Damage
    BY <1>3, CardSendsKeeps, CardTakesKeeps, CompleteKeeps, ProgrammedKeeps, DamageKeeps DEF Hardware
  <1>4. CASE ReadBlocks \/ WriteBlocks
    BY <1>4, CallKeeps DEF ReadBlocks, WriteBlocks
  <1>5. CASE UNCHANGED vars
    BY <1>5 DEF vars, Shape, Link, RegisterRuns, SdInv, OpFits, Pending, Quiet, Agreed, InitMeansReady,
          First, Addressed, Named, Last, Ends, InitOps
  <1> QED BY <1>1, <1>2, <1>3, <1>4, <1>5 DEF Next, Driver

LEMMA InitTransfers == Init => Transfers
  BY DEF Init, Transfers, Asked, Reading, Writing, Good

LEMMA CleanStep == SdInv /\ Fields /\ Transfers /\ Clean /\ [Next]_vars => Clean'
  <1> SUFFICES ASSUME SdInv, Fields, Transfers, Clean, [Next]_vars PROVE Clean'
    OBVIOUS
  <1>1. CASE Initialise
    BY <1>1, IdentifyClean, Cmd41Clean, Cmd3Clean, Scr51Clean, VersionClean, Speed6Clean,
       Width6Clean, SendsClean DEF Initialise
  <1>2. CASE Cmd13 \/ Command \/ WaitBuffer \/ MoveBlock \/ WaitComplete
    BY <1>2, Cmd13Clean, CommandClean, WaitBufferClean, MoveBlockClean, WaitCompleteClean
  <1>3. CASE WaitBufferRunsOut \/ WaitCompleteRunsOut
    <2>1. faults' = faults
      BY <1>3 DEF WaitBufferRunsOut, WaitCompleteRunsOut
    <2> QED BY <1>3, <2>1, NoWaitWithoutFault DEF Clean
  <1>4. CASE Hardware \/ Damage
    BY <1>4, CardSendsClean, CardTakesClean, CompleteClean, ProgrammedClean, DamageClean DEF Hardware
  <1>5. CASE ReadBlocks \/ WriteBlocks
    BY <1>5, CallClean DEF ReadBlocks, WriteBlocks
  <1>6. CASE UNCHANGED vars
    BY <1>6 DEF vars, Clean, Quietly, RegisterComes
  <1> QED BY <1>1, <1>2, <1>3, <1>4, <1>5, <1>6 DEF Next, Driver

\* At every step, for every number of blocks, calls, polls and faults.
LEMMA AllHolds == Spec => [](SdInv /\ Fields /\ Transfers /\ Clean)
  <1>1. Init => SdInv /\ Fields /\ Transfers /\ Clean
    BY InitSd, InitFields, InitTransfers, InitClean
  <1>2. SdInv /\ Fields /\ Transfers /\ Clean /\ [Next]_vars =>
          SdInv' /\ Fields' /\ Transfers' /\ Clean'
    BY SdInvStep, FieldsStep, TransfersStep, CleanStep
  <1> QED BY <1>1, <1>2, PTL DEF Spec

\* The ranges of the driver's descriptor, of the controller's registers and of the card,
\* with the tries of SDHC_SetSDOCR and SDHC_IdentifyCard within their limits
\* (sdhc.c:160-345).
THEOREM TypeCorrect == Spec => []TypeOK
  <1>1. SdInv /\ Fields => TypeOK
    <2> SUFFICES ASSUME Fields PROVE TypeOK
      OBVIOUS
    <2>1. Len(host.port) <= 1
      <3>1. host.port = <<>> \/ \E x : host.port = <<x>>
        BY DEF Fields, Typed
      <3>2. Len(<<>>) = 0 /\ \A x : Len(<<x>>) = 1
        OBVIOUS
      <3> HIDE DEF Typed
      <3>3. CASE host.port = <<>>
        BY <3>2, <3>3
      <3>4. CASE \E x : host.port = <<x>>
        <4>1. PICK x : host.port = <<x>>
          BY <3>4
        <4>2. Len(host.port) = 1
          BY <3>2, <4>1
        <4> QED BY <4>2
      <3> QED BY <3>1, <3>3, <3>4
    <2> QED BY <2>1 DEF Fields, Typed, CardTyped, TypeOK, States
  <1> QED BY <1>1, AllHolds, PTL

\* Whatever is lost or damaged on the way: when SDHC_Init reports success the card is
\* selected under the driver's address, on the same bus width, in blocks of 512 bytes,
\* addressed as the driver does, with no error pending (sdhc.c:160-632).
THEOREM InitReady == Spec => []InitMeansReady
  <1>1. SdInv => InitMeansReady
    BY DEF SdInv
  <1> QED BY <1>1, AllHolds, PTL

\* However many blocks a call moves and whatever befalls it: when it met a fault and
\* still returns success, the error bit is set, and the next command fails for it
\* (sdhc.c:84-158, 795-940).
THEOREM FaultStaysPending == Spec => []FaultIsPending
  <1>1. SdInv => FaultIsPending
    <2> SUFFICES ASSUME SdInv, drv.pc = "returned", drv.ret \in {0, 1}, hist.hurt
                 PROVE  host.err
      BY DEF FaultIsPending
    <2>1. drv.op \in {"read", "write"}
      BY DEF SdInv, OpFits
    <2> QED BY <2>1 DEF SdInv, Pending
  <1> QED BY <1>1, AllHolds, PTL

\* However many blocks a call moves, after calls that failed half way and with
\* transfer-complete bits left from busy responses: a call that met no fault and reports
\* success has moved exactly the blocks asked for (sdhc.c:795-940).
THEOREM TransfersAreExact == Spec => []TransferIsExact
  <1>1. SdInv /\ Fields /\ Transfers => TransferIsExact
    <2> SUFFICES ASSUME SdInv, Fields, Transfers PROVE TransferIsExact
      OBVIOUS
    <2>1. drv.start \in Nat /\ drv.blocks \in Nat
      BY DEF Fields, Typed
    <2>2. ReadArrives
      <3> SUFFICES ASSUME drv.pc = "returned", drv.op = "read", drv.ret = 1, ~hist.hurt
                   PROVE  drv.buf = [k \in 1..drv.blocks |-> disk[drv.start + k - 1]]
        BY DEF ReadArrives
      <3>1. /\ drv.buf = [k \in 1..(drv.blocks - drv.remain) |-> disk[drv.start + k - 1]]
            /\ drv.remain = 0
        BY DEF Transfers, Reading, Good
      <3>2. drv.blocks - drv.remain = drv.blocks
        BY <2>1, <3>1
      <3> QED BY <3>1, <3>2
    <2>3. WriteArrives
      <3> SUFFICES ASSUME drv.pc = "returned", drv.op = "write", drv.ret = 0, ~hist.hurt,
                          card.state # "rcv", NEW k \in 1..drv.blocks
                   PROVE  disk[drv.start + k - 1] = Data(k)
        BY DEF WriteArrives
      <3>1. /\ \A b \in drv.start..(drv.start + drv.blocks - host.run.left - 1) :
                 disk[b] = <<hist.calls + 1, b>>
            /\ host.run = Idle
        BY DEF Transfers, Writing, Good
      <3>2. host.run.left = 0
        BY <3>1 DEF Idle
      <3>3. drv.start + k - 1 \in drv.start..(drv.start + drv.blocks - host.run.left - 1)
        BY <2>1, <3>2
      <3> QED BY <3>1, <3>3 DEF Data
    <2> QED BY <2>2, <2>3 DEF TransferIsExact
  <1> QED BY <1>1, AllHolds, PTL

\* With nothing lost or damaged the polled buffer-ready bit is never cleared before it was
\* seen and transfer-complete never awaited in vain, through SDHC_Init and every call
\* (sdhc.c:440-632, 795-940).
THEOREM NoWaitIsInVain == Spec => []NoWaitRunsOut
  <1>1. Fields /\ Clean => NoWaitRunsOut
    <2> SUFFICES ASSUME Fields, Clean, hist.late PROVE faults < MaxFaults
      BY DEF NoWaitRunsOut
    <2>1. faults # MaxFaults
      BY DEF Clean, Quietly
    <2>2. faults \in 0..MaxFaults /\ MaxFaults \in Nat
      BY BoundAssumption DEF Fields, Typed
    <2> QED BY <2>1, <2>2
  <1> QED BY <1>1, AllHolds, PTL

=============================================================================
