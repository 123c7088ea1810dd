----------------------------- MODULE IdeProofs -----------------------------
(***************************************************************************)
(* What holds of the IDE driver for drives on any channels, any registers  *)
(* and bytes, any errors and any order of calls: the ports it touches, the *)
(* task file behind the HOB bit, and the answers of ide_polling.           *)
(***************************************************************************)
EXTENDS Ide, SequenceTheorems, TLAPS

-----------------------------------------------------------------------------
(* Types.                                                                  *)

Byte == SUBSET (0 .. 7)
Two == Byte \X Byte
Files == [2 .. 5 -> Two]
Drive == [file : Files, hob : BOOLEAN, status : Byte, error : Byte, unsettled : 0 .. 4]
Accesses == [do : {"in", "out"}, port : Int, v : Byte]

Typed ==
  /\ present \in SUBSET Channels
  /\ drive \in [Channels -> Drive]
  /\ outcome \in [Channels -> Byte]
  /\ expect \in [Channels -> [Pairs -> Seq(Byte)]]
  /\ in \in Byte
  /\ answer \in {0, 1, 2, 3, 7, 13, 19, 20, 21, 22, 23}
  /\ todo \in Seq(Accesses)

(* The ports the driver computes are those of the drives.                  *)
Wired ==
  \A c \in Channels :
    /\ channels[c].base = IF c = 0 THEN 496 ELSE 368
    /\ channels[c].ctrl = IF c = 0 THEN 1012 ELSE 884

(* The register of the drive behind a number of the driver.                *)
Behind(reg) == IF Hob(reg) THEN reg - 6 ELSE reg

Reaches(a, c, r) == Where(a.port) = {<<c, r>>}
Is(a, do, c, r, v) == a.do = do /\ a.v = v /\ Reaches(a, c, r)

LEMMA ChannelFacts == 0 \in Channels /\ 1 \in Channels /\ \A c \in Channels : c = 0 \/ c = 1
  BY DEF Channels, ATA_PRIMARY, ATA_SECONDARY

LEMMA PairFacts ==
  ASSUME NEW r \in Pairs
  PROVE  /\ r \in 2 .. 5 /\ ~Hob(r) /\ Hob(r + 6)
         /\ Behind(r) = r /\ Behind(r + 6) = r
  <1>1. r \in 2 .. 5
    BY IdeAssumption
  <1> QED
    BY <1>1 DEF Hob, Behind

(* Each register number leads to one register of one drive.                *)
LEMMA Ports ==
  ASSUME Wired, NEW c \in Channels, NEW reg \in 0 .. 12
  PROVE  Where(Port(c, reg)) = {<<c, Behind(reg)>>}
  <1> DEFINE q == Port(c, reg)
             r == Behind(reg)
  <1>1. c = 0 \/ c = 1
    BY ChannelFacts
  <1>2. CASE reg = 12
    <2>1. r = 12 /\ q = IF c = 0 THEN 1014 ELSE 886
      BY <1>1, <1>2 DEF Wired, Port, Hob, Behind
    <2>2. ASSUME NEW w \in Channels \X (0 .. 7) PROVE q # w[2] + IF w[1] = 0 THEN 496 ELSE 368
      BY <1>1, <2>1
    <2>3. ASSUME NEW w \in Channels \X {12}
          PROVE  q = (IF w[1] = 0 THEN 1014 ELSE 886) <=> w = <<c, 12>>
      BY <1>1, <2>1 DEF Channels, ATA_PRIMARY, ATA_SECONDARY
    <2>4. <<c, 12>> \in Channels \X {12}
      OBVIOUS
    <2> HIDE DEF q, r
    <2> QED
      BY <2>1, <2>2, <2>3, <2>4 DEF Where, ATA_REG_CONTROL, q, r
  <1>3. CASE reg # 12
    <2>1. r \in 0 .. 7 /\ q = r + IF c = 0 THEN 496 ELSE 368
      BY <1>1, <1>3 DEF Wired, Port, Hob, Behind
    <2> HIDE DEF q, r
    <2>2. ASSUME NEW w \in Channels \X (0 .. 7)
          PROVE  q = (w[2] + IF w[1] = 0 THEN 496 ELSE 368) <=> w = <<c, r>>
      BY <1>1, <2>1 DEF Channels, ATA_PRIMARY, ATA_SECONDARY
    <2>3. ASSUME NEW w \in Channels \X {12} PROVE q # IF w[1] = 0 THEN 1014 ELSE 886
      BY <1>1, <2>1
    <2>4. <<c, r>> \in Channels \X (0 .. 7)
      BY <2>1
    <2> QED
      BY <2>1, <2>2, <2>3, <2>4 DEF Where, ATA_REG_CONTROL, q, r
  <1> QED
    BY <1>2, <1>3

-----------------------------------------------------------------------------
(* What 100 ns and one access do to a drive.                               *)

BusyStatus == {ATA_SR_BSY}

LEMMA Built ==
  ASSUME NEW f \in Files, NEW h \in BOOLEAN, NEW s \in Byte, NEW e \in Byte, NEW u \in 0 .. 4
  PROVE  [file |-> f, hob |-> h, status |-> s, error |-> e, unsettled |-> u] \in Drive
  BY DEF Drive

LEMMA BusyNow ==
  ASSUME NEW d \in Drive, NEW e, e = [d EXCEPT !.unsettled = 0, !.status = BusyStatus]
  PROVE  /\ e \in Drive /\ e.file = d.file /\ e.hob = d.hob
         /\ e.unsettled = 0 /\ e.status = BusyStatus
  <1>1. /\ d.file \in Files /\ d.hob \in BOOLEAN /\ d.error \in Byte /\ 0 \in 0 .. 4
        /\ d = [file |-> d.file, hob |-> d.hob, status |-> d.status,
                error |-> d.error, unsettled |-> d.unsettled]
    BY DEF Drive
  <1>2. BusyStatus \in Byte
    BY DEF BusyStatus, Byte, ATA_SR_BSY
  <1>3. e = [file |-> d.file, hob |-> d.hob, status |-> BusyStatus,
             error |-> d.error, unsettled |-> 0]
    BY <1>1
  <1>4. [file |-> d.file, hob |-> d.hob, status |-> BusyStatus,
         error |-> d.error, unsettled |-> 0] \in Drive
    BY <1>1, <1>2, Built, Zenon
  <1>5. e \in Drive
    BY <1>3, <1>4, Zenon
  <1>6. /\ e.file = d.file /\ e.hob = d.hob
        /\ e.unsettled = 0 /\ e.status = BusyStatus
    BY <1>3
  <1> QED
    BY <1>5, <1>6

LEMMA LaterFacts ==
  ASSUME NEW d \in Drive
  PROVE  /\ Later(d) \in Drive
         /\ Later(d).file = d.file /\ Later(d).hob = d.hob
         /\ Later(d).status = (IF d.unsettled = 1 THEN BusyStatus ELSE d.status)
         /\ Later(d).unsettled = (IF d.unsettled = 0 THEN 0 ELSE d.unsettled - 1)
  <1>1. /\ d.file \in Files /\ d.hob \in BOOLEAN /\ d.status \in Byte
        /\ d.error \in Byte /\ d.unsettled \in 0 .. 4
        /\ d = [file |-> d.file, hob |-> d.hob, status |-> d.status,
                error |-> d.error, unsettled |-> d.unsettled]
    BY DEF Drive
  <1>2. BusyStatus \in Byte
    BY DEF BusyStatus, Byte, ATA_SR_BSY
  <1>3. CASE d.unsettled = 1
    <2>1. Later(d) = [d EXCEPT !.unsettled = 0, !.status = BusyStatus]
      BY <1>3 DEF Later, BusyStatus
    <2>2. /\ Later(d) \in Drive /\ Later(d).file = d.file /\ Later(d).hob = d.hob
          /\ Later(d).unsettled = 0 /\ Later(d).status = BusyStatus
      BY <2>1, BusyNow, Zenon
    <2> QED
      BY <1>3, <2>2
  <1>4. CASE d.unsettled # 1
    <2> DEFINE k == IF d.unsettled = 0 THEN 0 ELSE d.unsettled - 1
    <2>1. Later(d) = [d EXCEPT !.unsettled = k]
      BY <1>4 DEF Later
    <2>2. k \in 0 .. 4
      BY <1>1
    <2> HIDE DEF k
    <2>3. /\ Later(d) \in Drive /\ Later(d).file = d.file /\ Later(d).hob = d.hob
          /\ Later(d).status = d.status /\ Later(d).unsettled = k
      BY <1>1, <2>1, <2>2 DEF Drive
    <2> QED
      BY <1>4, <2>3 DEF k
  <1> QED
    BY <1>3, <1>4

LEMMA ControlFacts ==
  ASSUME NEW d \in Drive, NEW v
  PROVE  /\ Accessed(d, 12, "out", v) \in Drive
         /\ Accessed(d, 12, "out", v).file = d.file
         /\ Accessed(d, 12, "out", v).hob = (7 \in v)
         /\ Accessed(d, 12, "out", v).status = d.status
         /\ Accessed(d, 12, "out", v).unsettled = d.unsettled
  <1>1. Accessed(d, 12, "out", v) = [d EXCEPT !.hob = 7 \in v]
    BY DEF Accessed, ATA_REG_COMMAND, ATA_REG_CONTROL, ATA_REG_DATA
  <1>2. (7 \in v) \in BOOLEAN
    OBVIOUS
  <1> QED
    BY <1>1, <1>2 DEF Drive

LEMMA CommandFacts ==
  ASSUME NEW d \in Drive, NEW v
  PROVE  /\ Accessed(d, 7, "out", v) \in Drive
         /\ Accessed(d, 7, "out", v).file = d.file
         /\ Accessed(d, 7, "out", v).hob = FALSE
         /\ Accessed(d, 7, "out", v).status = d.status
         /\ Accessed(d, 7, "out", v).unsettled = 4
  <1>1. Accessed(d, 7, "out", v) = [d EXCEPT !.unsettled = 4, !.hob = FALSE]
    BY DEF Accessed, ATA_REG_COMMAND, ATA_REG_CONTROL, ATA_REG_DATA
  <1>2. Accessed(d, 7, "out", v) \in Drive
    <2>1. 4 \in 0 .. 4 /\ FALSE \in BOOLEAN
      OBVIOUS
    <2>2. Accessed(d, 7, "out", v) =
            [file |-> d.file, hob |-> FALSE, status |-> d.status,
             error |-> d.error, unsettled |-> 4]
      BY <1>1 DEF Drive
    <2>3. d.file \in Files /\ d.status \in Byte /\ d.error \in Byte
      BY DEF Drive
    <2> QED
      BY <2>1, <2>2, <2>3, Built
  <1>3. /\ Accessed(d, 7, "out", v).file = d.file
        /\ Accessed(d, 7, "out", v).hob = FALSE
        /\ Accessed(d, 7, "out", v).status = d.status
        /\ Accessed(d, 7, "out", v).unsettled = 4
    BY <1>1 DEF Drive
  <1> QED
    BY <1>2, <1>3

LEMMA WriteFacts ==
  ASSUME NEW d \in Drive, NEW r \in 2 .. 5, NEW v \in Byte
  PROVE  /\ Accessed(d, r, "out", v) \in Drive
         /\ Accessed(d, r, "out", v).file = [d.file EXCEPT ![r] = <<v, @[1]>>]
         /\ Accessed(d, r, "out", v).hob = FALSE
         /\ Accessed(d, r, "out", v).status = d.status
         /\ Accessed(d, r, "out", v).unsettled = d.unsettled
  <1>1. Accessed(d, r, "out", v) = [d EXCEPT !.file[r] = <<v, @[1]>>, !.hob = FALSE]
    BY DEF Accessed, ATA_REG_COMMAND, ATA_REG_CONTROL, ATA_REG_DATA
  <1> DEFINE f == [d.file EXCEPT ![r] = <<v, @[1]>>]
  <1>2. f \in Files
    BY DEF Drive, Files, Two
  <1>3. Accessed(d, r, "out", v) = [d EXCEPT !.file = f, !.hob = FALSE]
    BY <1>1
  <1> HIDE DEF f
  <1>4. /\ Accessed(d, r, "out", v) \in Drive
        /\ Accessed(d, r, "out", v).file = f
        /\ Accessed(d, r, "out", v).hob = FALSE
        /\ Accessed(d, r, "out", v).status = d.status
        /\ Accessed(d, r, "out", v).unsettled = d.unsettled
    BY <1>2, <1>3 DEF Drive
  <1> QED
    BY <1>4 DEF f

LEMMA DataFacts ==
  ASSUME NEW d \in Drive, NEW v
  PROVE  /\ Accessed(d, 0, "in", v) \in Drive
         /\ Accessed(d, 0, "in", v).file = d.file
         /\ Accessed(d, 0, "in", v).hob = d.hob
         /\ Accessed(d, 0, "in", v).status = {ATA_SR_DRDY}
         /\ Accessed(d, 0, "in", v).unsettled = d.unsettled
  <1>1. Accessed(d, 0, "in", v) = [d EXCEPT !.status = {ATA_SR_DRDY}]
    BY DEF Accessed, ATA_REG_COMMAND, ATA_REG_CONTROL, ATA_REG_DATA
  <1>2. {ATA_SR_DRDY} \in Byte
    BY DEF ATA_SR_DRDY, Byte
  <1> QED
    BY <1>1, <1>2 DEF Drive

LEMMA ReadFacts ==
  ASSUME NEW d \in Drive, NEW r \in 1 .. 12, NEW v
  PROVE  Accessed(d, r, "in", v) = d
  BY DEF Accessed, ATA_REG_COMMAND, ATA_REG_CONTROL, ATA_REG_DATA

-----------------------------------------------------------------------------
(* What a drive shows and what became of its last command.                 *)

(* A drive with status and unsettled as in d, whose last command ended     *)
(* with o: the status is the old one until BSY shows, and then o.          *)
Works(d, o) ==
  /\ d.status \in Statuses \cup {BusyStatus}
  /\ d.unsettled > 0 => d.status \in Statuses
  /\ o = IF d.unsettled > 0 THEN BusyStatus ELSE d.status

Working ==
  \A c \in Channels :
    /\ Works(drive[c], outcome[c])
    /\ c \notin present => drive[c].unsettled = 0 /\ drive[c].status = {ATA_SR_DRDY}

LEMMA StatusFacts ==
  /\ {ATA_SR_DRDY} \in Statuses
  /\ \A s \in Statuses : s \in Byte /\ ATA_SR_BSY \notin s /\ s # BusyStatus
  /\ BusyStatus \in Byte
  BY DEF Statuses, BusyStatus, Byte, ATA_SR_BSY, ATA_SR_DRDY, ATA_SR_DRQ, ATA_SR_ERR, ATA_SR_DF

(* What ide_polling makes of a status a command can end with.              *)
LEMMA CheckedFacts ==
  ASSUME NEW s \in Statuses
  PROVE  /\ Checked(s) \in {0, 1, 2, 3}
         /\ Checked(s) = 0 <=> ATA_SR_DRQ \in s
         /\ Checked(s) = 2 <=> ATA_SR_ERR \in s
         /\ Checked(s) = 1 <=> s = {ATA_SR_DRDY, ATA_SR_DF}
         /\ Checked(s) = 3 <=> s = {ATA_SR_DRDY}
  <1>1. \/ s = {6} \/ s = {6, 3} \/ s = {6, 0} \/ s = {6, 5} \/ s = {6, 5, 0}
    BY DEF Statuses, ATA_SR_DRDY, ATA_SR_DRQ, ATA_SR_ERR, ATA_SR_DF
  <1>2. CASE s = {6}
    BY <1>2 DEF Checked, ATA_SR_DRDY, ATA_SR_DRQ, ATA_SR_ERR, ATA_SR_DF
  <1>3. CASE s = {6, 3}
    BY <1>3 DEF Checked, ATA_SR_DRDY, ATA_SR_DRQ, ATA_SR_ERR, ATA_SR_DF
  <1>4. CASE s = {6, 0}
    BY <1>4 DEF Checked, ATA_SR_DRDY, ATA_SR_DRQ, ATA_SR_ERR, ATA_SR_DF
  <1>5. CASE s = {6, 5}
    BY <1>5 DEF Checked, ATA_SR_DRDY, ATA_SR_DRQ, ATA_SR_ERR, ATA_SR_DF
  <1>6. CASE s = {6, 5, 0}
    BY <1>6 DEF Checked, ATA_SR_DRDY, ATA_SR_DRQ, ATA_SR_ERR, ATA_SR_DF
  <1> QED
    BY <1>1, <1>2, <1>3, <1>4, <1>5, <1>6

LEMMA LaterWorks ==
  ASSUME NEW d \in Drive, NEW o, Works(d, o)
  PROVE  Works(Later(d), o) /\ Later(d).unsettled < 4
  <1> DEFINE e == Later(d)
  <1>1. /\ e.status = (IF d.unsettled = 1 THEN BusyStatus ELSE d.status)
        /\ e.unsettled = (IF d.unsettled = 0 THEN 0 ELSE d.unsettled - 1)
        /\ d.unsettled \in 0 .. 4
    BY LaterFacts DEF Drive
  <1> HIDE DEF e
  <1>2. e.unsettled < 4
    BY <1>1
  <1>3. Works(e, o)
    BY <1>1 DEF Works
  <1> QED
    BY <1>2, <1>3 DEF e

-----------------------------------------------------------------------------
(* One access that reaches register r of channel c.                        *)

LEMMA ReadTyped ==
  ASSUME Typed, NEW c \in Channels, NEW r \in 0 .. 12 PROVE Read(c, r) \in Byte
  <1>1. drive[c] \in Drive
    BY DEF Typed
  <1>2. CASE c \notin present
    BY <1>2 DEF Read, Floating, Byte
  <1>3. CASE c \in present /\ r \in 2 .. 5
    <2>1. drive[c].file[r] \in Two
      BY <1>1, <1>3 DEF Drive, Files
    <2>2. drive[c].file[r][1] \in Byte /\ drive[c].file[r][2] \in Byte
      BY <2>1 DEF Two
    <2>3. Read(c, r) = drive[c].file[r][IF drive[c].hob THEN 2 ELSE 1]
      BY <1>3 DEF Read, ATA_REG_ERROR
    <2> QED
      BY <2>2, <2>3
  <1>4. CASE c \in present /\ r \notin 2 .. 5
    <2>1. Read(c, r) = drive[c].error \/ Read(c, r) = drive[c].status
      BY <1>4 DEF Read, ATA_REG_ERROR
    <2> QED
      BY <1>1, <2>1 DEF Drive
  <1> QED
    BY <1>2, <1>3, <1>4

LEMMA AccessEffect ==
  ASSUME Access, NEW a, a = Head(todo), NEW c \in Channels, NEW r \in 0 .. 12,
         Reaches(a, c, r)
  PROVE  /\ todo # <<>> /\ todo' = Tail(todo)
         /\ UNCHANGED <<channels, present, call, at, answer, expect>>
         /\ in' = IF a.do = "out" THEN in ELSE Read(c, r)
         /\ drive' = [o \in Channels |-> drive'[o]]
         /\ drive'[c] = IF c \in present THEN Accessed(Later(drive[c]), r, a.do, a.v)
                        ELSE Later(drive[c])
         /\ \A o \in Channels : o # c => drive'[o] = Later(drive[o])
         /\ outcome' = [o \in Channels |->
              IF drive'[o].unsettled = 4 THEN BusyStatus
              ELSE IF a.do = "in" /\ o = c /\ r = 0 THEN {ATA_SR_DRDY}
              ELSE outcome[o]]
  <1>1. Where(a.port) = {<<c, r>>}
    BY DEF Reaches
  <1>2. /\ Where(a.port) # {} /\ (CHOOSE w \in Where(a.port) : TRUE) = <<c, r>>
        /\ \A o \in Channels, x \in 0 .. 12 : <<o, x>> \in Where(a.port) <=> o = c /\ x = r
    BY <1>1
  <1>3. (CHOOSE x \in 0 .. 12 : <<c, x>> \in Where(a.port)) = r
    BY <1>2
  <1>4. /\ todo # <<>> /\ todo' = Tail(todo)
        /\ UNCHANGED <<channels, present, call, at, answer, expect>>
    BY DEF Access
  <1>5. in' = IF a.do = "out" THEN in ELSE Read(c, r)
    <2> DEFINE way == CHOOSE w \in Where(a.port) : TRUE
    <2>1. way = <<c, r>>
      BY <1>2
    <2>2. in' = IF a.do = "out" THEN in
                ELSE IF Where(a.port) = {} THEN Floating ELSE Read(way[1], way[2])
      BY DEF Access
    <2> HIDE DEF way
    <2>3. way[1] = c /\ way[2] = r
      BY <2>1
    <2> QED
      BY <1>2, <2>2, <2>3
  <1>6. drive' = [o \in Channels |->
          IF o \in present /\ \E x \in 0 .. 12 : <<o, x>> \in Where(a.port)
          THEN Accessed(Later(drive[o]),
                        CHOOSE x \in 0 .. 12 : <<o, x>> \in Where(a.port), a.do, a.v)
          ELSE Later(drive[o])]
    BY DEF Access
  <1>7. drive'[c] = IF c \in present THEN Accessed(Later(drive[c]), r, a.do, a.v)
                    ELSE Later(drive[c])
    BY <1>2, <1>3, <1>6
  <1>8. \A o \in Channels : o # c => drive'[o] = Later(drive[o])
    BY <1>2, <1>6
  <1>9. outcome' = [o \in Channels |->
          IF drive'[o].unsettled = 4 THEN BusyStatus
          ELSE IF a.do = "in" /\ <<o, ATA_REG_DATA>> \in Where(a.port) THEN {ATA_SR_DRDY}
          ELSE outcome[o]]
    BY DEF Access, BusyStatus
  <1>10. \A o \in Channels : <<o, ATA_REG_DATA>> \in Where(a.port) <=> o = c /\ r = 0
    <2>1. 0 \in 0 .. 12
      OBVIOUS
    <2> QED
      BY <1>2, <2>1 DEF ATA_REG_DATA
  <1>11. outcome' = [o \in Channels |->
          IF drive'[o].unsettled = 4 THEN BusyStatus
          ELSE IF a.do = "in" /\ o = c /\ r = 0 THEN {ATA_SR_DRDY}
          ELSE outcome[o]]
    BY <1>9, <1>10
  <1> QED
    BY <1>4, <1>5, <1>6, <1>7, <1>8, <1>11

(* The accesses the driver makes, to register r of a drive whose last      *)
(* command ended with o: data and commands only when it has ended.         *)
Proper(do, r, v, o) ==
  \/ do = "in" /\ r \in 1 .. 12
  \/ do = "in" /\ r = 0 /\ o # BusyStatus
  \/ do = "out" /\ r = 12
  \/ do = "out" /\ r \in 2 .. 5 /\ v \in Byte
  \/ do = "out" /\ r = 7 /\ o # BusyStatus

Written(d, do, r, v) ==
  IF do = "out" /\ r \in 2 .. 5 THEN [d.file EXCEPT ![r] = <<v, @[1]>>] ELSE d.file

HobAfter(d, do, r, v) ==
  IF do = "out" THEN r = 12 /\ 7 \in v ELSE d.hob

Ended(e, do, r, o) ==
  IF e.unsettled = 4 THEN BusyStatus
  ELSE IF do = "in" /\ r = 0 THEN {ATA_SR_DRDY} ELSE o

Settling(d) == IF d.unsettled = 0 THEN 0 ELSE d.unsettled - 1

LEMMA AccessedFacts ==
  ASSUME NEW d \in Drive, NEW o, Works(d, o),
         NEW do, NEW r \in 0 .. 12, NEW v, Proper(do, r, v, o),
         NEW e, e = Accessed(Later(d), r, do, v)
  PROVE  /\ e \in Drive
         /\ Works(e, Ended(e, do, r, o))
         /\ e.file = Written(d, do, r, v)
         /\ e.hob = HobAfter(d, do, r, v)
         /\ ~(do = "out" /\ r = 7) => e.unsettled = Settling(d)
         /\ d.unsettled = 0 /\ r \notin {0, 7} => e.status = d.status
         /\ d.unsettled = 0 /\ do = "in" /\ r = 7 => e.status = d.status
  <1> DEFINE k == Later(d)
  <1>1. /\ k \in Drive /\ k.file = d.file /\ k.hob = d.hob
        /\ k.status = (IF d.unsettled = 1 THEN BusyStatus ELSE d.status)
        /\ k.unsettled = Settling(d)
        /\ Works(k, o) /\ k.unsettled < 4
    BY LaterFacts, LaterWorks DEF Settling
  <1>b. e = Accessed(k, r, do, v)
    OBVIOUS
  <1> HIDE DEF k
  <1>a. d.hob \in BOOLEAN /\ d.unsettled \in 0 .. 4 /\ k.unsettled \in 0 .. 4
    BY <1>1 DEF Drive
  <1>2. CASE do = "in" /\ r \in 1 .. 12
    <2>1. e = k
      BY <1>1, <1>2, <1>b, ReadFacts
    <2>2. Ended(e, do, r, o) = o
      BY <1>1, <1>2, <2>1 DEF Ended
    <2> QED
      BY <1>1, <1>2, <2>1, <2>2 DEF Written, HobAfter
  <1>3. CASE do = "in" /\ r = 0 /\ o # BusyStatus
    <2>1. /\ e \in Drive /\ e.file = k.file /\ e.hob = k.hob
          /\ e.status = {ATA_SR_DRDY} /\ e.unsettled = k.unsettled
      BY <1>1, <1>3, <1>b, DataFacts
    <2>2. Ended(e, do, r, o) = {ATA_SR_DRDY}
      BY <1>1, <1>3, <2>1 DEF Ended
    <2>3. k.unsettled = 0
      BY <1>1, <1>3, <1>a DEF Works
    <2>4. Works(e, Ended(e, do, r, o))
      BY <2>1, <2>2, <2>3, StatusFacts DEF Works
    <2> QED
      BY <1>1, <1>3, <2>1, <2>4 DEF Written, HobAfter
  <1>4. CASE do = "out" /\ r = 12
    <2>1. /\ e \in Drive /\ e.file = k.file /\ e.hob = (7 \in v)
          /\ e.status = k.status /\ e.unsettled = k.unsettled
      BY <1>1, <1>4, <1>b, ControlFacts
    <2>2. Ended(e, do, r, o) = o
      BY <1>1, <1>4, <2>1 DEF Ended
    <2>3. Works(e, Ended(e, do, r, o))
      BY <1>1, <2>1, <2>2 DEF Works
    <2> QED
      BY <1>1, <1>4, <2>1, <2>3 DEF Written, HobAfter
  <1>5. CASE do = "out" /\ r \in 2 .. 5 /\ v \in Byte
    <2>1. /\ e \in Drive /\ e.file = [k.file EXCEPT ![r] = <<v, @[1]>>] /\ e.hob = FALSE
          /\ e.status = k.status /\ e.unsettled = k.unsettled
      <3>1. e = Accessed(k, r, "out", v)
        BY <1>5, <1>b
      <3>2. /\ Accessed(k, r, "out", v) \in Drive
            /\ Accessed(k, r, "out", v).file = [k.file EXCEPT ![r] = <<v, @[1]>>]
            /\ Accessed(k, r, "out", v).hob = FALSE
            /\ Accessed(k, r, "out", v).status = k.status
            /\ Accessed(k, r, "out", v).unsettled = k.unsettled
        BY <1>1, <1>5, WriteFacts, Zenon
      <3> QED
        BY <3>1, <3>2, Zenon
    <2>2. Ended(e, do, r, o) = o
      BY <1>1, <1>5, <2>1 DEF Ended
    <2>3. Works(e, Ended(e, do, r, o))
      BY <1>1, <2>1, <2>2 DEF Works
    <2>4. e.file = Written(d, do, r, v)
      BY <1>1, <1>5, <2>1 DEF Written
    <2>5. e.hob = HobAfter(d, do, r, v)
      <3>1. r # 12
        BY <1>5
      <3>2. (r = 12 /\ 7 \in v) = FALSE
        BY <3>1, Zenon
      <3> QED
        BY <1>5, <2>1, <3>2, Zenon DEF HobAfter
    <2>6. e.unsettled = Settling(d) /\ (d.unsettled = 0 => e.status = d.status)
      BY <1>1, <2>1
    <2>7. r \notin {0, 7}
      BY <1>5
    <2> QED
      BY <2>1, <2>3, <2>4, <2>5, <2>6, <2>7
  <1>6. CASE do = "out" /\ r = 7 /\ o # BusyStatus
    <2>1. /\ e \in Drive /\ e.file = k.file /\ e.hob = FALSE
          /\ e.status = k.status /\ e.unsettled = 4
      <3>1. e = Accessed(k, 7, "out", v)
        BY <1>6, <1>b
      <3>2. /\ Accessed(k, 7, "out", v) \in Drive
            /\ Accessed(k, 7, "out", v).file = k.file
            /\ Accessed(k, 7, "out", v).hob = FALSE
            /\ Accessed(k, 7, "out", v).status = k.status
            /\ Accessed(k, 7, "out", v).unsettled = 4
        BY <1>1, CommandFacts, Zenon
      <3> QED
        BY <3>1, <3>2, Zenon
    <2>2. Ended(e, do, r, o) = BusyStatus
      BY <2>1 DEF Ended
    <2>3. k.status \in Statuses
      BY <1>1, <1>6, <1>a, StatusFacts DEF Works
    <2>4. Works(e, Ended(e, do, r, o))
      BY <2>1, <2>2, <2>3 DEF Works
    <2>5. e.file = Written(d, do, r, v)
      BY <1>1, <1>6, <2>1 DEF Written
    <2>6. e.hob = HobAfter(d, do, r, v)
      <3>1. r # 12
        BY <1>6
      <3>2. (r = 12 /\ 7 \in v) = FALSE
        BY <3>1, Zenon
      <3> QED
        BY <1>6, <2>1, <3>2, Zenon DEF HobAfter
    <2>7. do # "in" /\ r \in {0, 7}
      BY <1>6
    <2> QED
      BY <1>6, <2>1, <2>4, <2>5, <2>6, <2>7
  <1> QED
    BY <1>2, <1>3, <1>4, <1>5, <1>6 DEF Proper

-----------------------------------------------------------------------------
(* The inductive invariant: what is true at each point of a call.          *)

Quiet == \A o \in Channels : ~drive[o].hob
QuietBut(c) == \A o \in Channels : o # c => ~drive[o].hob

(* What a pair was given, and what is behind it.                           *)
FileAgrees(e, f) ==
  /\ Len(e) <= 2
  /\ Len(e) >= 1 => f[1] = e[1]
  /\ Len(e) = 2 => f[2] = e[2]

Agree == \A o \in Channels, q \in Pairs : FileAgrees(expect[o][q], drive[o].file[q])

(* The same once v has been written to register r of channel c.            *)
AgreeAfter(c, r, v) ==
  \A o \in Channels, q \in Pairs :
    FileAgrees(expect[o][q], IF o = c /\ q = r THEN <<v, drive[o].file[q][1]>>
                             ELSE drive[o].file[q])

HobOn(a, c) == Is(a, "out", c, 12, {7})
HobOff(a, c) == Is(a, "out", c, 12, {})

Initializing ==
  /\ call.name = "initialize" /\ at = "idle" /\ Quiet /\ Agree
  /\ \/ todo = <<>>
     \/ Len(todo) = 1 /\ Is(todo[1], "out", 1, 12, {1})
     \/ Len(todo) = 2 /\ Is(todo[1], "out", 0, 12, {1}) /\ Is(todo[2], "out", 1, 12, {1})

WriteAhead(c, r, v) ==
  \/ Len(todo) = 1 /\ Is(todo[1], "out", c, r, v) /\ Quiet /\ AgreeAfter(c, r, v)
  \/ /\ Len(todo) = 3 /\ HobOn(todo[1], c) /\ Is(todo[2], "out", c, r, v) /\ HobOff(todo[3], c)
     /\ Quiet /\ AgreeAfter(c, r, v)
  \/ /\ Len(todo) = 2 /\ Is(todo[1], "out", c, r, v) /\ HobOff(todo[2], c)
     /\ QuietBut(c) /\ AgreeAfter(c, r, v)
  \/ Len(todo) = 1 /\ HobOff(todo[1], c) /\ QuietBut(c) /\ Agree
  \/ todo = <<>> /\ Quiet /\ Agree

Writing ==
  /\ call.name = "write" /\ at = "idle" /\ call.c \in present
  /\ \E r \in Pairs, v \in Byte : WriteAhead(call.c, r, v)

ReadAhead(c, x, r) ==
  \/ x = r /\ Len(todo) = 1 /\ Is(todo[1], "in", c, r, {}) /\ Quiet
  \/ /\ x = r + 6 /\ Len(todo) = 3
     /\ HobOn(todo[1], c) /\ Is(todo[2], "in", c, r, {}) /\ HobOff(todo[3], c) /\ Quiet
  \/ /\ x = r + 6 /\ Len(todo) = 2 /\ Is(todo[1], "in", c, r, {}) /\ HobOff(todo[2], c)
     /\ QuietBut(c) /\ drive[c].hob
  \/ /\ x = r + 6 /\ Len(todo) = 1 /\ HobOff(todo[1], c)
     /\ QuietBut(c) /\ in = drive[c].file[r][2]
  \/ /\ x \in {r, r + 6} /\ todo = <<>> /\ Quiet
     /\ in = drive[c].file[r][IF x = r THEN 1 ELSE 2]

Reading ==
  /\ call.name = "read" /\ at = "idle" /\ call.c \in present /\ Agree
  /\ \E r \in Pairs : ReadAhead(call.c, call.x, r)

Commanding ==
  /\ call.name = "command" /\ at = "idle" /\ call.c \in Channels /\ Quiet /\ Agree
  /\ \/ todo = <<>>
     \/ Len(todo) = 1 /\ Is(todo[1], "out", call.c, 7, {}) /\ outcome[call.c] # BusyStatus

(* The drive shows what its last command ended with.                       *)
Settled(c) == c \in present /\ drive[c].unsettled = 0 /\ drive[c].status \in Statuses

PollAhead(c) ==
  /\ Len(todo) <= 5
  /\ \A i \in 1 .. Len(todo) : Is(todo[i], "in", c, IF i = Len(todo) THEN 7 ELSE 12, {})
  /\ drive[c].unsettled <= IF Len(todo) = 0 THEN 0 ELSE Len(todo) - 1
  /\ todo = <<>> /\ 7 \notin in => Settled(c) /\ in = drive[c].status

CheckAhead(c) ==
  /\ Settled(c)
  /\ \/ Len(todo) = 1 /\ Is(todo[1], "in", c, 7, {})
     \/ todo = <<>> /\ in = drive[c].status

Polled(c, x) ==
  /\ todo = <<>> /\ Settled(c)
  /\ x = 0 => answer = 0
  /\ x = 1 => answer = Checked(drive[c].status)

Polling ==
  /\ call.name = "polling" /\ call.c \in Channels /\ call.x \in {0, 1} /\ Quiet /\ Agree
  /\ \/ at = "wait" /\ PollAhead(call.c)
     \/ at = "check" /\ call.x = 1 /\ CheckAhead(call.c)
     \/ at = "idle" /\ Polled(call.c, call.x)

Buffering ==
  /\ call.name = "buffer" /\ at = "idle" /\ call.c \in Channels /\ Quiet /\ Agree
  /\ \/ todo = <<>>
     \/ Len(todo) = 1 /\ Is(todo[1], "in", call.c, 0, {}) /\ outcome[call.c] # BusyStatus

Reporting ==
  /\ call.name = "print_error" /\ Settled(call.c) /\ Quiet /\ Agree
  /\ \/ /\ at = "error" /\ call.x \in {1, 2, 3} /\ call.x = Checked(drive[call.c].status)
        /\ todo = <<>> \/ (Len(todo) = 1 /\ Is(todo[1], "in", 0, 1, {}))
     \/ /\ at = "idle" /\ todo = <<>>
        /\ answer = 19 <=> drive[call.c].status = {ATA_SR_DRDY, ATA_SR_DF}
        /\ answer = 23 <=> drive[call.c].status = {ATA_SR_DRDY}

State ==
  Initializing \/ Writing \/ Reading \/ Commanding \/ Polling \/ Buffering \/ Reporting

IInv == Typed /\ Wired /\ Working /\ State

-----------------------------------------------------------------------------
(* The accesses a call plans.                                              *)

LEMMA PortTyped ==
  ASSUME Wired, NEW c \in Channels, NEW reg \in 0 .. 12 PROVE Port(c, reg) \in Int
  <1>1. channels[c].base \in Int /\ channels[c].ctrl \in Int
    BY DEF Wired
  <1>2. CASE reg \in 0 .. 7
    BY <1>1, <1>2 DEF Port, Hob
  <1>3. CASE reg \in 8 .. 11
    BY <1>1, <1>3 DEF Port, Hob
  <1>4. CASE reg = 12
    BY <1>1, <1>4 DEF Port, Hob
  <1> QED
    BY <1>2, <1>3, <1>4

LEMMA OutIs ==
  ASSUME Wired, NEW c \in Channels, NEW reg \in 0 .. 12, NEW v \in Byte
  PROVE  Out(c, reg, v) \in Accesses /\ Is(Out(c, reg, v), "out", c, Behind(reg), v)
  <1> DEFINE p == Port(c, reg)
             a == Out(c, reg, v)
  <1>1. p \in Int /\ Where(p) = {<<c, Behind(reg)>>}
    BY PortTyped, Ports
  <1>2. a = [do |-> "out", port |-> p, v |-> v]
    BY DEF Out
  <1> HIDE DEF p, a
  <1>3. a \in Accesses /\ a.do = "out" /\ a.port = p /\ a.v = v
    BY <1>1, <1>2 DEF Accesses
  <1>4. Is(a, "out", c, Behind(reg), v)
    BY <1>1, <1>3, Zenon DEF Is, Reaches
  <1> QED
    BY <1>3, <1>4 DEF a

LEMMA InIs ==
  ASSUME Wired, NEW c \in Channels, NEW reg \in 0 .. 12
  PROVE  In(c, reg) \in Accesses /\ Is(In(c, reg), "in", c, Behind(reg), {})
  <1> DEFINE p == Port(c, reg)
             a == In(c, reg)
  <1>1. p \in Int /\ Where(p) = {<<c, Behind(reg)>>}
    BY PortTyped, Ports
  <1>2. a = [do |-> "in", port |-> p, v |-> {}]
    BY DEF In
  <1> HIDE DEF p, a
  <1>3. a \in Accesses /\ a.do = "in" /\ a.port = p /\ a.v = {}
    BY <1>1, <1>2 DEF Accesses, Byte
  <1>4. Is(a, "in", c, Behind(reg), {})
    BY <1>1, <1>3, Zenon DEF Is, Reaches
  <1> QED
    BY <1>3, <1>4 DEF a

-----------------------------------------------------------------------------
(* One access, seen from every channel.                                    *)

LEMMA AccessKeeps ==
  ASSUME Typed, Wired, Working, Access,
         NEW do \in {"in", "out"}, NEW c \in Channels, NEW r \in 0 .. 12, NEW v,
         Is(Head(todo), do, c, r, v), Proper(do, r, v, outcome[c])
  PROVE  /\ Typed' /\ Wired' /\ Working'
         /\ todo # <<>> /\ todo' = Tail(todo) /\ UNCHANGED <<present, call, at, answer, expect>>
         /\ in' = IF do = "out" THEN in ELSE Read(c, r)
         /\ \A o \in Channels :
              /\ drive'[o].file = IF o = c /\ o \in present THEN Written(drive[o], do, r, v)
                                  ELSE drive[o].file
              /\ drive'[o].hob = IF o = c /\ o \in present THEN HobAfter(drive[o], do, r, v)
                                 ELSE drive[o].hob
              /\ ~(o = c /\ do = "out" /\ r = 7) => drive'[o].unsettled = Settling(drive[o])
              /\ /\ drive[o].unsettled = 0 
                 /\ ~(o = c /\ r = 0) /\ ~(o = c /\ do = "out" /\ r = 7)
                 => drive'[o].status = drive[o].status
  <1> DEFINE a == Head(todo)
  <1>1. a.do = do /\ a.v = v /\ Reaches(a, c, r)
    BY DEF Is
  <1> HIDE DEF a
  <1>2. /\ todo # <<>> /\ todo' = Tail(todo)
        /\ UNCHANGED <<channels, present, call, at, answer, expect>>
        /\ in' = IF a.do = "out" THEN in ELSE Read(c, r)
        /\ drive' = [o \in Channels |-> drive'[o]]
        /\ drive'[c] = IF c \in present THEN Accessed(Later(drive[c]), r, a.do, a.v)
                       ELSE Later(drive[c])
        /\ \A o \in Channels : o # c => drive'[o] = Later(drive[o])
        /\ outcome' = [o \in Channels |->
             IF drive'[o].unsettled = 4 THEN BusyStatus
             ELSE IF a.do = "in" /\ o = c /\ r = 0 THEN {ATA_SR_DRDY}
             ELSE outcome[o]]
    <2>1. a = Head(todo)
      BY DEF a
    <2> QED
      BY <1>1, <2>1, AccessEffect
  <1>3. in' = IF do = "out" THEN in ELSE Read(c, r)
    BY <1>1, <1>2
  <1>4. \A o \in Channels : o # c \/ o \notin present => drive'[o] = Later(drive[o])
    BY <1>2
  <1>5. c \in present => drive'[c] = Accessed(Later(drive[c]), r, do, v)
    BY <1>1, <1>2
  <1>6. outcome' = [o \in Channels |->
             IF drive'[o].unsettled = 4 THEN BusyStatus
             ELSE IF do = "in" /\ o = c /\ r = 0 THEN {ATA_SR_DRDY}
             ELSE outcome[o]]
    BY <1>1, <1>2
  <1>7. \A o \in Channels : drive[o] \in Drive /\ Works(drive[o], outcome[o])
    BY DEF Typed, Working
  <1>8. ASSUME NEW o \in Channels, o # c \/ o \notin present
        PROVE  /\ drive'[o] \in Drive
               /\ drive'[o].file = drive[o].file /\ drive'[o].hob = drive[o].hob
               /\ drive'[o].unsettled = Settling(drive[o])
               /\ drive[o].unsettled = 0 => drive'[o].status = drive[o].status
               /\ drive'[o].unsettled < 4
               /\ Works(drive'[o], outcome[o])
    <2> DEFINE d == drive[o]
               e == drive'[o]
    <2>1. d \in Drive /\ Works(d, outcome[o]) /\ e = Later(d)
      BY <1>4, <1>7, <1>8
    <2> HIDE DEF d, e
    <2>2. /\ e \in Drive /\ e.file = d.file /\ e.hob = d.hob
          /\ e.status = (IF d.unsettled = 1 THEN BusyStatus ELSE d.status)
          /\ e.unsettled = (IF d.unsettled = 0 THEN 0 ELSE d.unsettled - 1)
      BY <2>1, LaterFacts
    <2>3. Works(e, outcome[o]) /\ e.unsettled < 4
      BY <2>1, LaterWorks
    <2>4. /\ e \in Drive /\ e.file = d.file /\ e.hob = d.hob
          /\ e.unsettled = Settling(d)
          /\ d.unsettled = 0 => e.status = d.status
          /\ e.unsettled < 4
          /\ Works(e, outcome[o])
      BY <2>2, <2>3 DEF Settling
    <2> QED
      BY <2>4 DEF d, e
  <1>9. ASSUME c \in present
        PROVE  /\ drive'[c] \in Drive
               /\ drive'[c].file = Written(drive[c], do, r, v)
               /\ drive'[c].hob = HobAfter(drive[c], do, r, v)
               /\ ~(do = "out" /\ r = 7) => drive'[c].unsettled = Settling(drive[c])
               /\ drive[c].unsettled = 0 /\ r # 0 /\ ~(do = "out" /\ r = 7)
                    => drive'[c].status = drive[c].status
               /\ Works(drive'[c], outcome'[c])
    <2> DEFINE d == drive[c]
               e == drive'[c]
               o == outcome[c]
    <2>1. d \in Drive /\ Works(d, o) /\ Proper(do, r, v, o)
      BY <1>7
    <2>2. e = Accessed(Later(d), r, do, v)
      BY <1>5, <1>9
    <2>3. outcome'[c] = Ended(e, do, r, o)
      BY <1>6 DEF Ended
    <2> HIDE DEF d, e, o
    <2>4. /\ e \in Drive
          /\ Works(e, Ended(e, do, r, o))
          /\ e.file = Written(d, do, r, v)
          /\ e.hob = HobAfter(d, do, r, v)
          /\ ~(do = "out" /\ r = 7) => e.unsettled = Settling(d)
          /\ d.unsettled = 0 /\ r \notin {0, 7} => e.status = d.status
          /\ d.unsettled = 0 /\ do = "in" /\ r = 7 => e.status = d.status
      BY <2>1, <2>2, AccessedFacts
    <2>5. d.unsettled = 0 /\ r # 0 /\ ~(do = "out" /\ r = 7) => e.status = d.status
      <3>1. do = "in" \/ do = "out"
        OBVIOUS
      <3> QED
        BY <2>4, <3>1
    <2> QED
      BY <2>3, <2>4, <2>5, Zenon DEF d, e, o
  <1>10. Wired'
    BY <1>2 DEF Wired
  <1>11. \A o \in Channels : drive'[o] \in Drive
    BY <1>8, <1>9
  <1>12. \A o \in Channels : Works(drive'[o], outcome'[o])
    <2>1. ASSUME NEW o \in Channels, o # c \/ o \notin present
          PROVE  Works(drive'[o], outcome'[o])
      <3>1. drive'[o].unsettled # 4 /\ Works(drive'[o], outcome[o])
        BY <1>8, <1>11, <2>1 DEF Drive
      <3>2. CASE do = "in" /\ o = c /\ r = 0
        <4>1. outcome'[o] = {ATA_SR_DRDY}
          BY <1>6, <3>1, <3>2
        <4>2. o \notin present
          BY <2>1, <3>2
        <4>3. drive[o].unsettled = 0 /\ drive[o].status = {ATA_SR_DRDY}
          BY <4>2 DEF Working
        <4>4. drive'[o].unsettled = 0 /\ drive'[o].status = {ATA_SR_DRDY}
          BY <1>8, <2>1, <4>3 DEF Settling
        <4> QED
          BY <4>1, <4>4, StatusFacts DEF Works
      <3>3. CASE ~(do = "in" /\ o = c /\ r = 0)
        <4>1. outcome'[o] = outcome[o]
          BY <1>6, <3>1, <3>3
        <4> QED
          BY <3>1, <4>1
      <3> QED
        BY <3>2, <3>3
    <2> QED
      BY <1>9, <2>1
  <1>13. Working'
    <2>1. ASSUME NEW o \in Channels, o \notin present
          PROVE  drive'[o].unsettled = 0 /\ drive'[o].status = {ATA_SR_DRDY}
      <3>1. drive[o].unsettled = 0 /\ drive[o].status = {ATA_SR_DRDY}
        BY <2>1 DEF Working
      <3> QED
        BY <1>8, <2>1, <3>1 DEF Settling
    <2>2. present' = present
      BY <1>2
    <2> QED
      BY <1>12, <2>1, <2>2 DEF Working
  <1>14. Typed'
    <2>1. drive' \in [Channels -> Drive]
      BY <1>2, <1>11
    <2>2. outcome' \in [Channels -> Byte]
      <3>1. \A o \in Channels : outcome[o] \in Byte
        BY DEF Typed
      <3>2. BusyStatus \in Byte /\ {ATA_SR_DRDY} \in Byte
        BY StatusFacts
      <3> QED
        BY <1>6, <3>1, <3>2
    <2>3. in' \in Byte
      BY <1>3, ReadTyped DEF Typed
    <2>4. todo' \in Seq(Accesses)
      BY <1>2 DEF Typed
    <2> QED
      BY <1>2, <2>1, <2>2, <2>3, <2>4 DEF Typed
  <1>15. ASSUME NEW o \in Channels
         PROVE  /\ drive'[o].file = IF o = c /\ o \in present THEN Written(drive[o], do, r, v)
                                    ELSE drive[o].file
                /\ drive'[o].hob = IF o = c /\ o \in present THEN HobAfter(drive[o], do, r, v)
                                   ELSE drive[o].hob
                /\ ~(o = c /\ do = "out" /\ r = 7) => drive'[o].unsettled = Settling(drive[o])
                /\ /\ drive[o].unsettled = 0 
                   /\ ~(o = c /\ r = 0) /\ ~(o = c /\ do = "out" /\ r = 7)
                   => drive'[o].status = drive[o].status
    BY <1>8, <1>9, Zenon
  <1> QED
    BY <1>2, <1>3, <1>10, <1>13, <1>14, <1>15

-----------------------------------------------------------------------------
(* The five kinds of access.                                               *)

Stepped ==
  /\ Typed' /\ Wired' /\ Working' /\ UNCHANGED <<present, call, at, answer, expect>>
  /\ Len(todo') = Len(todo) - 1
  /\ Len(todo) = 1 => todo' = <<>>
  /\ \A i \in 1 .. Len(todo) - 1 : todo'[i] = todo[i + 1]

FilesKept == \A o \in Channels : drive'[o].file = drive[o].file
HobsKept == \A o \in Channels : drive'[o].hob = drive[o].hob

LEMMA NoneLeft == ASSUME NEW t \in Seq(Accesses), Len(t) = 0 PROVE t = <<>>
  OBVIOUS

LEMMA TodoFacts ==
  ASSUME Typed, todo # <<>>
  PROVE  /\ Len(todo) \in Nat /\ Len(todo) > 0 /\ Head(todo) = todo[1]
         /\ Len(Tail(todo)) = Len(todo) - 1
         /\ Len(todo) = 1 => Tail(todo) = <<>>
         /\ \A i \in 1 .. Len(todo) - 1 : Tail(todo)[i] = todo[i + 1]
  <1> DEFINE s == todo
  <1>1. s \in Seq(Accesses) /\ s # <<>>
    BY DEF Typed
  <1> HIDE DEF s
  <1>2. /\ Len(s) \in Nat /\ Len(s) > 0 /\ Head(s) = s[1]
        /\ Tail(s) \in Seq(Accesses) /\ Len(Tail(s)) = Len(s) - 1
        /\ \A i \in 1 .. Len(s) - 1 : Tail(s)[i] = s[i + 1]
    BY <1>1
  <1>3. Len(s) = 1 => Tail(s) = <<>>
    <2>1. Len(s) = 1 => Len(Tail(s)) = 0
      BY <1>2
    <2> QED
      BY <1>2, <2>1, NoneLeft, Zenon
  <1> QED
    BY <1>2, <1>3 DEF s

LEMMA ControlStep ==
  ASSUME Typed, Wired, Working, Access, todo # <<>>,
         NEW c \in Channels, NEW v, Is(todo[1], "out", c, 12, v)
  PROVE  /\ Stepped /\ FilesKept /\ in' = in
         /\ \A o \in Channels :
              drive'[o].hob = IF o = c /\ o \in present THEN 7 \in v ELSE drive[o].hob
  <1>1. "out" \in {"in", "out"} /\ 12 \in 0 .. 12 /\ Proper("out", 12, v, outcome[c])
    BY DEF Proper
  <1>2. Is(Head(todo), "out", c, 12, v)
    BY TodoFacts
  <1>3. /\ Typed' /\ Wired' /\ Working'
        /\ todo' = Tail(todo) /\ UNCHANGED <<present, call, at, answer, expect>>
        /\ in' = IF "out" = "out" THEN in ELSE Read(c, 12)
        /\ \A o \in Channels :
              /\ drive'[o].file = IF o = c /\ o \in present THEN Written(drive[o], "out", 12, v)
                                  ELSE drive[o].file
              /\ drive'[o].hob = IF o = c /\ o \in present THEN HobAfter(drive[o], "out", 12, v)
                                 ELSE drive[o].hob
    BY <1>1, <1>2, AccessKeeps, Zenon
  <1>4. \A o \in Channels : /\ Written(drive[o], "out", 12, v) = drive[o].file
                            /\ HobAfter(drive[o], "out", 12, v) = (7 \in v)
    BY DEF Written, HobAfter
  <1>5. Stepped
    BY <1>3, TodoFacts DEF Stepped
  <1> QED
    BY <1>3, <1>4, <1>5, Zenon DEF FilesKept

LEMMA ReadStep ==
  ASSUME Typed, Wired, Working, Access, todo # <<>>,
         NEW c \in Channels, NEW r \in 1 .. 12, Is(todo[1], "in", c, r, {})
  PROVE  /\ Stepped /\ FilesKept /\ HobsKept /\ in' = Read(c, r)
         /\ \A o \in Channels :
              /\ drive'[o].unsettled = Settling(drive[o])
              /\ drive[o].unsettled = 0 => drive'[o].status = drive[o].status
  <1>1. "in" \in {"in", "out"} /\ r \in 0 .. 12 /\ Proper("in", r, {}, outcome[c])
    BY DEF Proper
  <1>2. Is(Head(todo), "in", c, r, {})
    BY TodoFacts
  <1>3. /\ Typed' /\ Wired' /\ Working'
        /\ todo' = Tail(todo) /\ UNCHANGED <<present, call, at, answer, expect>>
        /\ in' = IF "in" = "out" THEN in ELSE Read(c, r)
        /\ \A o \in Channels :
              /\ drive'[o].file = IF o = c /\ o \in present THEN Written(drive[o], "in", r, {})
                                  ELSE drive[o].file
              /\ drive'[o].hob = IF o = c /\ o \in present THEN HobAfter(drive[o], "in", r, {})
                                 ELSE drive[o].hob
              /\ ~(o = c /\ "in" = "out" /\ r = 7) => drive'[o].unsettled = Settling(drive[o])
              /\ /\ drive[o].unsettled = 0
                 /\ ~(o = c /\ r = 0) /\ ~(o = c /\ "in" = "out" /\ r = 7)
                 => drive'[o].status = drive[o].status
    BY <1>1, <1>2, AccessKeeps
  <1>4. "in" # "out" /\ r # 0
    OBVIOUS
  <1>5. \A o \in Channels : /\ Written(drive[o], "in", r, {}) = drive[o].file
                            /\ HobAfter(drive[o], "in", r, {}) = drive[o].hob
    BY <1>4, Zenon DEF Written, HobAfter
  <1>6. Stepped
    BY <1>3, TodoFacts DEF Stepped
  <1>7. in' = Read(c, r)
    BY <1>3, <1>4, Zenon
  <1>8. \A o \in Channels :
              /\ drive'[o].unsettled = Settling(drive[o])
              /\ drive[o].unsettled = 0 => drive'[o].status = drive[o].status
    BY <1>3, <1>4, Zenon
  <1> QED
    BY <1>3, <1>5, <1>6, <1>7, <1>8, Zenon DEF FilesKept, HobsKept

LEMMA WriteStep ==
  ASSUME Typed, Wired, Working, Access, todo # <<>>,
         NEW c \in present, NEW r \in 2 .. 5, NEW v \in Byte, Is(todo[1], "out", c, r, v)
  PROVE  /\ Stepped /\ ~drive'[c].hob
         /\ drive'[c].file = [drive[c].file EXCEPT ![r] = <<v, @[1]>>]
         /\ \A o \in Channels : o # c => /\ drive'[o].hob = drive[o].hob
                                         /\ drive'[o].file = drive[o].file
  <1>1. /\ "out" \in {"in", "out"} /\ r \in 0 .. 12 /\ Proper("out", r, v, outcome[c])
        /\ c \in Channels
    BY DEF Proper, Typed
  <1>2. Is(Head(todo), "out", c, r, v)
    BY TodoFacts
  <1>3. /\ Typed' /\ Wired' /\ Working'
        /\ todo' = Tail(todo) /\ UNCHANGED <<present, call, at, answer, expect>>
        /\ \A o \in Channels :
              /\ drive'[o].file = IF o = c /\ o \in present THEN Written(drive[o], "out", r, v)
                                  ELSE drive[o].file
              /\ drive'[o].hob = IF o = c /\ o \in present THEN HobAfter(drive[o], "out", r, v)
                                 ELSE drive[o].hob
    BY <1>1, <1>2, AccessKeeps, Zenon
  <1>4. /\ Written(drive[c], "out", r, v) = [drive[c].file EXCEPT ![r] = <<v, @[1]>>]
        /\ ~HobAfter(drive[c], "out", r, v)
    <2>1. r # 12
      OBVIOUS
    <2> QED
      BY <2>1, Zenon DEF Written, HobAfter
  <1>5. Stepped
    BY <1>3, TodoFacts DEF Stepped
  <1> QED
    BY <1>1, <1>3, <1>4, <1>5, Zenon

LEMMA CommandStep ==
  ASSUME Typed, Wired, Working, Access, todo # <<>>,
         NEW c \in Channels, Is(todo[1], "out", c, 7, {}), outcome[c] # BusyStatus
  PROVE  Stepped /\ FilesKept /\ (Quiet => Quiet')
  <1>1. "out" \in {"in", "out"} /\ 7 \in 0 .. 12 /\ Proper("out", 7, {}, outcome[c])
    BY DEF Proper
  <1>2. Is(Head(todo), "out", c, 7, {})
    BY TodoFacts
  <1>3. /\ Typed' /\ Wired' /\ Working'
        /\ todo' = Tail(todo) /\ UNCHANGED <<present, call, at, answer, expect>>
        /\ \A o \in Channels :
              /\ drive'[o].file = IF o = c /\ o \in present THEN Written(drive[o], "out", 7, {})
                                  ELSE drive[o].file
              /\ drive'[o].hob = IF o = c /\ o \in present THEN HobAfter(drive[o], "out", 7, {})
                                 ELSE drive[o].hob
    BY <1>1, <1>2, AccessKeeps, Zenon
  <1>4. \A o \in Channels : /\ Written(drive[o], "out", 7, {}) = drive[o].file
                            /\ ~HobAfter(drive[o], "out", 7, {})
    BY DEF Written, HobAfter
  <1>5. Stepped
    BY <1>3, TodoFacts DEF Stepped
  <1> QED
    BY <1>3, <1>4, <1>5, Zenon DEF FilesKept, Quiet

LEMMA DataStep ==
  ASSUME Typed, Wired, Working, Access, todo # <<>>,
         NEW c \in Channels, Is(todo[1], "in", c, 0, {}), outcome[c] # BusyStatus
  PROVE  Stepped /\ FilesKept /\ HobsKept
  <1>1. "in" \in {"in", "out"} /\ 0 \in 0 .. 12 /\ Proper("in", 0, {}, outcome[c])
    BY DEF Proper
  <1>2. Is(Head(todo), "in", c, 0, {})
    BY TodoFacts
  <1>3. /\ Typed' /\ Wired' /\ Working'
        /\ todo' = Tail(todo) /\ UNCHANGED <<present, call, at, answer, expect>>
        /\ \A o \in Channels :
              /\ drive'[o].file = IF o = c /\ o \in present THEN Written(drive[o], "in", 0, {})
                                  ELSE drive[o].file
              /\ drive'[o].hob = IF o = c /\ o \in present THEN HobAfter(drive[o], "in", 0, {})
                                 ELSE drive[o].hob
    BY <1>1, <1>2, AccessKeeps, Zenon
  <1>4. "in" # "out"
    OBVIOUS
  <1>5. \A o \in Channels : /\ Written(drive[o], "in", 0, {}) = drive[o].file
                            /\ HobAfter(drive[o], "in", 0, {}) = drive[o].hob
    BY <1>4, Zenon DEF Written, HobAfter
  <1>6. Stepped
    BY <1>3, TodoFacts DEF Stepped
  <1> QED
    BY <1>3, <1>5, <1>6, Zenon DEF FilesKept, HobsKept

-----------------------------------------------------------------------------
(* An access leads from each point of a call to the next.                  *)

LEMMA AgreeKept ==
  ASSUME Agree, FilesKept, expect' = expect PROVE Agree'
  BY DEF Agree, FilesKept

LEMMA QuietKept ==
  ASSUME HobsKept PROVE (Quiet => Quiet') /\ \A c : QuietBut(c) => QuietBut(c)'
  BY DEF HobsKept, Quiet, QuietBut

LEMMA HobTurnedOff ==
  ASSUME NEW c \in Channels, NEW v \in {{}, {1}}, QuietBut(c),
         \A o \in Channels :
           drive'[o].hob = IF o = c /\ o \in present THEN 7 \in v ELSE drive[o].hob,
         c \in present \/ Quiet
  PROVE  Quiet'
  <1>1. 7 \notin v
    OBVIOUS
  <1>2. ASSUME NEW o \in Channels PROVE ~drive'[o].hob
    BY <1>1, <1>2, Zenon DEF QuietBut, Quiet
  <1> QED
    BY <1>2 DEF Quiet

LEMMA AllButOne == ASSUME Quiet, NEW c PROVE QuietBut(c)
  BY DEF Quiet, QuietBut

LEMMA InitializingAccess ==
  ASSUME IInv, Access, Initializing PROVE IInv'
  <1>1. Typed /\ Wired /\ Working
    BY DEF IInv
  <1>2. todo # <<>>
    BY DEF Access
  <1>3. ASSUME NEW c \in Channels, Is(todo[1], "out", c, 12, {1})
        PROVE  Stepped /\ Quiet' /\ Agree'
    <2>1. /\ Stepped /\ FilesKept
          /\ \A o \in Channels :
               drive'[o].hob = IF o = c /\ o \in present THEN 7 \in {1} ELSE drive[o].hob
      BY <1>1, <1>2, <1>3, ControlStep, Zenon
    <2>2. Quiet'
      BY <2>1, AllButOne, HobTurnedOff DEF Initializing
    <2>3. Agree'
      BY <2>1, AgreeKept DEF Initializing, Stepped
    <2> QED
      BY <2>1, <2>2, <2>3
  <1>4. Initializing'
    <2>1. CASE Len(todo) = 1 /\ Is(todo[1], "out", 1, 12, {1})
      BY <1>3, <2>1, ChannelFacts DEF Initializing, Stepped
    <2>2. CASE Len(todo) = 2 /\ Is(todo[1], "out", 0, 12, {1}) /\ Is(todo[2], "out", 1, 12, {1})
      <3>1. Stepped /\ Quiet' /\ Agree'
        BY <1>3, <2>2, ChannelFacts
      <3>2. Len(todo') = 1 /\ todo'[1] = todo[2]
        BY <2>2, <3>1 DEF Stepped
      <3> QED
        BY <2>2, <3>1, <3>2 DEF Initializing, Stepped
    <2> QED
      BY <1>2, <2>1, <2>2 DEF Initializing
  <1>5. Stepped
    BY <1>2, <1>3, ChannelFacts DEF Initializing
  <1> QED
    BY <1>4, <1>5 DEF IInv, Stepped, State

LEMMA CommandingAccess ==
  ASSUME IInv, Access, Commanding PROVE IInv'
  <1>1. Typed /\ Wired /\ Working
    BY DEF IInv
  <1>2. todo # <<>>
    BY DEF Access
  <1>3. /\ call.c \in Channels /\ Len(todo) = 1
        /\ Is(todo[1], "out", call.c, 7, {}) /\ outcome[call.c] # BusyStatus
    BY <1>2 DEF Commanding
  <1>4. Stepped /\ FilesKept /\ (Quiet => Quiet')
    BY <1>1, <1>2, <1>3, CommandStep, Zenon
  <1>5. Agree'
    BY <1>4, AgreeKept DEF Commanding, Stepped
  <1>6. Commanding'
    BY <1>3, <1>4, <1>5 DEF Commanding, Stepped
  <1> QED
    BY <1>4, <1>6 DEF IInv, Stepped, State

LEMMA BufferingAccess ==
  ASSUME IInv, Access, Buffering PROVE IInv'
  <1>1. Typed /\ Wired /\ Working
    BY DEF IInv
  <1>2. todo # <<>>
    BY DEF Access
  <1>3. /\ call.c \in Channels /\ Len(todo) = 1
        /\ Is(todo[1], "in", call.c, 0, {}) /\ outcome[call.c] # BusyStatus
    BY <1>2 DEF Buffering
  <1>4. Stepped /\ FilesKept /\ HobsKept
    BY <1>1, <1>2, <1>3, DataStep, Zenon
  <1>5. Agree' /\ Quiet'
    BY <1>4, AgreeKept, QuietKept DEF Buffering, Stepped
  <1>6. Buffering'
    BY <1>3, <1>4, <1>5 DEF Buffering, Stepped
  <1> QED
    BY <1>4, <1>6 DEF IInv, Stepped, State

LEMMA ReportingAccess ==
  ASSUME IInv, Access, Reporting PROVE IInv'
  <1>1. Typed /\ Wired /\ Working
    BY DEF IInv
  <1>2. todo # <<>>
    BY DEF Access
  <1>3. /\ call.c \in present /\ Len(todo) = 1 /\ Is(todo[1], "in", 0, 1, {})
        /\ 0 \in Channels /\ 1 \in 1 .. 12
    BY <1>2, ChannelFacts DEF Reporting, Settled
  <1>4. /\ Stepped /\ FilesKept /\ HobsKept
        /\ \A o \in Channels :
              /\ drive'[o].unsettled = Settling(drive[o])
              /\ drive[o].unsettled = 0 => drive'[o].status = drive[o].status
    BY <1>1, <1>2, <1>3, ReadStep, Zenon
  <1>5. Agree' /\ Quiet'
    BY <1>4, AgreeKept, QuietKept DEF Reporting, Stepped
  <1>6. call.c \in Channels
    BY <1>1, <1>3 DEF Typed
  <1>7. drive'[call.c].unsettled = 0 /\ drive'[call.c].status = drive[call.c].status
    BY <1>4, <1>6 DEF Reporting, Settled, Settling
  <1>8. Settled(call.c)' /\ call' = call /\ at' = at
    BY <1>3, <1>4, <1>7 DEF Reporting, Settled, Stepped
  <1>9. Reporting'
    BY <1>2, <1>3, <1>4, <1>5, <1>7, <1>8 DEF Reporting, Stepped
  <1> QED
    BY <1>4, <1>9 DEF IInv, Stepped, State

LEMMA StatusRead ==
  ASSUME NEW c \in Channels
  PROVE  /\ c \in present => Read(c, 7) = drive[c].status
         /\ c \notin present => 7 \in Read(c, 7)
  BY DEF Read, Floating, ATA_REG_ERROR

LEMMA FileRead ==
  ASSUME NEW c \in present, NEW r \in 2 .. 5
  PROVE  Read(c, r) = drive[c].file[r][IF drive[c].hob THEN 2 ELSE 1]
  BY DEF Read, ATA_REG_ERROR

LEMMA SettledFacts ==
  ASSUME Working, NEW c \in present, c \in Channels, drive[c].unsettled = 0, 7 \notin drive[c].status
  PROVE  Settled(c)
  <1>1. drive[c].status \in Statuses \cup {BusyStatus}
    BY DEF Working, Works
  <1>2. drive[c].status # BusyStatus
    BY DEF BusyStatus, ATA_SR_BSY
  <1> QED
    BY <1>1, <1>2 DEF Settled

LEMMA PollingAccess ==
  ASSUME IInv, Access, Polling PROVE IInv'
  <1> DEFINE c == call.c
             n == Len(todo)
  <1>1. Typed /\ Wired /\ Working
    BY DEF IInv
  <1>2. todo # <<>>
    BY DEF Access
  <1>3. c \in Channels /\ call.x \in {0, 1} /\ Quiet /\ Agree
    BY DEF Polling
  <1>a. n \in Nat /\ n > 0 /\ drive[c] \in Drive /\ drive[c].unsettled \in 0 .. 4
    BY <1>1, <1>2, <1>3, TodoFacts DEF Typed, Drive
  <1> HIDE DEF c, n
  <1>4. CASE at = "wait" /\ PollAhead(c)
    <2> DEFINE r == IF n = 1 THEN 7 ELSE 12
    <2>1. r \in 1 .. 12 /\ Is(todo[1], "in", c, r, {})
      <3>1. 1 \in 1 .. Len(todo) /\ n = Len(todo)
        BY <1>a DEF n
      <3>2. Is(todo[1], "in", c, IF 1 = Len(todo) THEN 7 ELSE 12, {})
        BY <1>4, <3>1, Zenon DEF PollAhead
      <3>3. r = IF 1 = Len(todo) THEN 7 ELSE 12
        BY <3>1
      <3> QED
        BY <3>2, <3>3
    <2>2. /\ Stepped /\ FilesKept /\ HobsKept /\ in' = Read(c, r)
          /\ \A o \in Channels :
              /\ drive'[o].unsettled = Settling(drive[o])
              /\ drive[o].unsettled = 0 => drive'[o].status = drive[o].status
      <3> HIDE DEF r
      <3> QED
        BY <1>1, <1>2, <1>3, <2>1, ReadStep, Zenon
    <2>3. Agree' /\ Quiet' /\ call' = call /\ at' = at /\ present' = present
      BY <1>3, <2>2, AgreeKept, QuietKept DEF Stepped
    <2>4. Len(todo') = n - 1 /\ Len(todo') <= 5
      BY <1>a, <1>4, <2>2 DEF Stepped, PollAhead, n
    <2>5. ASSUME NEW i \in 1 .. Len(todo')
          PROVE  Is(todo'[i], "in", c, IF i = Len(todo') THEN 7 ELSE 12, {})
      <3>1. i + 1 \in 1 .. n /\ todo'[i] = todo[i + 1]
        BY <1>a, <2>2, <2>4 DEF Stepped, n
      <3>2. Is(todo[i + 1], "in", c, IF i + 1 = n THEN 7 ELSE 12, {})
        BY <1>4, <3>1 DEF PollAhead, n
      <3>3. i + 1 = n <=> i = Len(todo')
        BY <1>a, <2>4
      <3> QED
        BY <3>1, <3>2, <3>3
    <2>6. drive[c].unsettled <= n - 1
      BY <1>a, <1>4 DEF PollAhead, n
    <2>7. drive'[c].unsettled <= IF Len(todo') = 0 THEN 0 ELSE Len(todo') - 1
      BY <1>a, <1>3, <2>2, <2>4, <2>6 DEF Settling
    <2>8. ASSUME todo' = <<>>, 7 \notin in' PROVE Settled(c)' /\ in' = drive'[c].status
      <3>1. n = 1 /\ r = 7
        BY <1>a, <2>4, <2>8
      <3>2. c \in present /\ in' = drive[c].status
        BY <1>3, <2>2, <2>8, <3>1, StatusRead
      <3>3. Settled(c)
        BY <1>a, <1>1, <1>3, <2>6, <2>8, <3>1, <3>2, SettledFacts
      <3>4. drive'[c].unsettled = 0 /\ drive'[c].status = drive[c].status
        BY <1>3, <2>2, <3>3 DEF Settled, Settling
      <3>5. c' = c
        BY <2>3 DEF c
      <3> QED
        BY <2>3, <3>2, <3>3, <3>4, <3>5 DEF Settled
    <2>9. c' = c
      BY <2>3 DEF c
    <2>10. PollAhead(c)'
      BY <2>4, <2>5, <2>7, <2>8, <2>9 DEF PollAhead
    <2>11. Polling'
      BY <1>3, <1>4, <2>3, <2>10 DEF Polling, c
    <2> QED
      BY <2>2, <2>11 DEF IInv, Stepped, State
  <1>5. CASE at = "check" /\ call.x = 1 /\ CheckAhead(c)
    <2>1. Settled(c) /\ n = 1 /\ Is(todo[1], "in", c, 7, {}) /\ 7 \in 1 .. 12
      BY <1>2, <1>5 DEF CheckAhead, n
    <2>2. /\ Stepped /\ FilesKept /\ HobsKept /\ in' = Read(c, 7)
          /\ \A o \in Channels :
              /\ drive'[o].unsettled = Settling(drive[o])
              /\ drive[o].unsettled = 0 => drive'[o].status = drive[o].status
      BY <1>1, <1>2, <1>3, <2>1, ReadStep, Zenon
    <2>3. Agree' /\ Quiet' /\ call' = call /\ at' = at /\ present' = present
      BY <1>3, <2>2, AgreeKept, QuietKept DEF Stepped
    <2>4. c' = c /\ todo' = <<>>
      BY <2>1, <2>2, <2>3 DEF c, Stepped, n
    <2>5. drive'[c].unsettled = 0 /\ drive'[c].status = drive[c].status
      BY <1>3, <2>1, <2>2 DEF Settled, Settling
    <2>6. in' = drive[c].status
      BY <1>3, <2>1, <2>2, StatusRead DEF Settled
    <2>7. CheckAhead(c)'
      BY <2>1, <2>3, <2>4, <2>5, <2>6 DEF CheckAhead, Settled
    <2>8. Polling'
      BY <1>3, <1>5, <2>3, <2>7 DEF Polling, c
    <2> QED
      BY <2>2, <2>8 DEF IInv, Stepped, State
  <1> QED
    BY <1>2, <1>4, <1>5 DEF Polling, Polled, c

LEMMA ReadingAccess ==
  ASSUME IInv, Access, Reading PROVE IInv'
  <1> DEFINE c == call.c
             x == call.x
  <1>1. Typed /\ Wired /\ Working
    BY DEF IInv
  <1>2. todo # <<>>
    BY DEF Access
  <1>3. c \in present /\ c \in Channels /\ Agree /\ at = "idle" /\ call.name = "read"
    BY <1>1 DEF Reading, Typed
  <1>4. PICK r \in Pairs : ReadAhead(c, x, r)
    BY DEF Reading
  <1>5. r \in 2 .. 5 /\ r \in 1 .. 12 /\ r + 6 # r
    BY IdeAssumption
  <1>6. SUFFICES /\ Stepped /\ FilesKept
                 /\ call' = call /\ present' = present => ReadAhead(c, x, r)'
    <2>1. Agree' /\ call' = call /\ at' = at /\ present' = present
      BY <1>3, <1>6, AgreeKept DEF Stepped
    <2>2. ReadAhead(c, x, r)'
      BY <1>6, <2>1
    <2>3. Reading'
      BY <1>3, <2>1, <2>2 DEF Reading
    <2> QED
      BY <1>6, <2>3 DEF IInv, Stepped, State
  <1> HIDE DEF c, x
  <1>7. ASSUME call' = call PROVE c' = c /\ x' = x
    BY <1>7 DEF c, x
  <1>8. ASSUME Is(todo[1], "in", c, r, {})
        PROVE  Stepped /\ FilesKept /\ HobsKept /\ in' = Read(c, r)
    BY <1>1, <1>2, <1>3, <1>5, <1>8, ReadStep, Zenon
  <1>9. ASSUME NEW v, Is(todo[1], "out", c, 12, v)
        PROVE  /\ Stepped /\ FilesKept /\ in' = in
               /\ \A o \in Channels :
                    drive'[o].hob = IF o = c /\ o \in present THEN 7 \in v ELSE drive[o].hob
    BY <1>1, <1>2, <1>3, <1>9, ControlStep, Zenon
  <1>10. CASE x = r /\ Len(todo) = 1 /\ Is(todo[1], "in", c, r, {}) /\ Quiet
    <2>1. Stepped /\ FilesKept /\ HobsKept /\ in' = Read(c, r)
      BY <1>8, <1>10
    <2>2. todo' = <<>> /\ Quiet'
      BY <1>10, <2>1, QuietKept DEF Stepped
    <2>3. in' = drive[c].file[r][1]
      BY <1>3, <1>5, <1>10, <2>1, FileRead DEF Quiet
    <2>4. in' = drive'[c].file[r][1]
      BY <1>3, <2>1, <2>3 DEF FilesKept
    <2> QED
      BY <1>7, <1>10, <2>1, <2>2, <2>4 DEF ReadAhead
  <1>11. CASE /\ x = r + 6 /\ Len(todo) = 3
              /\ HobOn(todo[1], c) /\ Is(todo[2], "in", c, r, {}) /\ HobOff(todo[3], c) /\ Quiet
    <2>1. /\ Stepped /\ FilesKept /\ in' = in
          /\ \A o \in Channels :
               drive'[o].hob = IF o = c /\ o \in present THEN 7 \in {7} ELSE drive[o].hob
      BY <1>9, <1>11 DEF HobOn
    <2>2. QuietBut(c) /\ drive'[c].hob /\ \A o \in Channels : o # c => ~drive'[o].hob
      BY <1>3, <1>11, <2>1 DEF QuietBut, Quiet
    <2>3. Len(todo') = 2 /\ todo'[1] = todo[2] /\ todo'[2] = todo[3]
      BY <1>11, <2>1 DEF Stepped
    <2> QED
      BY <1>7, <1>11, <2>1, <2>2, <2>3 DEF ReadAhead, HobOff, QuietBut
  <1>12. CASE /\ x = r + 6 /\ Len(todo) = 2 /\ Is(todo[1], "in", c, r, {}) /\ HobOff(todo[2], c)
              /\ QuietBut(c) /\ drive[c].hob
    <2>1. Stepped /\ FilesKept /\ HobsKept /\ in' = Read(c, r)
      BY <1>8, <1>12
    <2>2. in' = drive[c].file[r][2]
      BY <1>3, <1>5, <1>12, <2>1, FileRead
    <2>3. in' = drive'[c].file[r][2]
      BY <1>3, <2>1, <2>2 DEF FilesKept
    <2>4. Len(todo') = 1 /\ todo'[1] = todo[2]
      BY <1>12, <2>1 DEF Stepped
    <2>5. \A o \in Channels : o # c => ~drive'[o].hob
      BY <1>12, <2>1 DEF QuietBut, HobsKept
    <2> QED
      BY <1>7, <1>12, <2>1, <2>3, <2>4, <2>5 DEF ReadAhead, HobOff, QuietBut
  <1>13. CASE /\ x = r + 6 /\ Len(todo) = 1 /\ HobOff(todo[1], c)
              /\ QuietBut(c) /\ in = drive[c].file[r][2]
    <2>1. /\ Stepped /\ FilesKept /\ in' = in
          /\ \A o \in Channels :
               drive'[o].hob = IF o = c /\ o \in present THEN 7 \in {} ELSE drive[o].hob
      BY <1>9, <1>13 DEF HobOff
    <2>2. Quiet'
      BY <1>3, <1>13, <2>1, HobTurnedOff
    <2>3. in' = drive'[c].file[r][2] /\ todo' = <<>>
      BY <1>3, <1>13, <2>1 DEF FilesKept, Stepped
    <2> QED
      BY <1>5, <1>7, <1>13, <2>1, <2>2, <2>3 DEF ReadAhead
  <1> QED
    BY <1>2, <1>4, <1>10, <1>11, <1>12, <1>13 DEF ReadAhead

LEMMA AgreeWritten ==
  ASSUME Typed, NEW c \in Channels, NEW r \in Pairs, NEW v \in Byte,
         AgreeAfter(c, r, v), expect' = expect,
         drive'[c].file = [drive[c].file EXCEPT ![r] = <<v, @[1]>>],
         \A o \in Channels : o # c => drive'[o].file = drive[o].file
  PROVE  Agree'
  <1>1. r \in 2 .. 5 /\ drive[c].file \in Files
    BY IdeAssumption DEF Typed, Drive
  <1>2. ASSUME NEW o \in Channels, NEW q \in Pairs
        PROVE  drive'[o].file[q] = IF o = c /\ q = r THEN <<v, drive[o].file[q][1]>>
                                   ELSE drive[o].file[q]
    <2>1. q \in 2 .. 5
      BY IdeAssumption
    <2> QED
      BY <1>1, <2>1 DEF Files
  <1> QED
    BY <1>2 DEF Agree, AgreeAfter

LEMMA AgreeAfterKept ==
  ASSUME NEW c, NEW r, NEW v, AgreeAfter(c, r, v), FilesKept, expect' = expect
  PROVE  \A o \in Channels, q \in Pairs :
           FileAgrees(expect'[o][q], IF o = c /\ q = r THEN <<v, drive'[o].file[q][1]>>
                                     ELSE drive'[o].file[q])
  BY DEF AgreeAfter, FilesKept

LEMMA WritingAccess ==
  ASSUME IInv, Access, Writing PROVE IInv'
  <1> DEFINE c == call.c
  <1>1. Typed /\ Wired /\ Working
    BY DEF IInv
  <1>2. todo # <<>>
    BY DEF Access
  <1>3. c \in present /\ c \in Channels /\ at = "idle" /\ call.name = "write"
    BY <1>1 DEF Writing, Typed
  <1>4. PICK r \in Pairs, v \in Byte : WriteAhead(c, r, v)
    BY DEF Writing
  <1>5. r \in 2 .. 5
    BY IdeAssumption
  <1>6. SUFFICES Stepped /\ (call' = call => WriteAhead(c, r, v)')
    <2>1. call' = call /\ at' = at /\ present' = present
      BY <1>6 DEF Stepped
    <2>2. WriteAhead(c, r, v)'
      BY <1>6, <2>1
    <2>3. Writing'
      BY <1>3, <2>1, <2>2 DEF Writing
    <2> QED
      BY <1>6, <2>3 DEF IInv, Stepped, State
  <1> HIDE DEF c
  <1>7. ASSUME call' = call PROVE c' = c
    BY <1>7 DEF c
  <1>8. ASSUME Is(todo[1], "out", c, r, v), AgreeAfter(c, r, v), QuietBut(c)
        PROVE  Stepped /\ Quiet' /\ Agree'
    <2>1. /\ Stepped /\ ~drive'[c].hob
          /\ drive'[c].file = [drive[c].file EXCEPT ![r] = <<v, @[1]>>]
          /\ \A o \in Channels : o # c => /\ drive'[o].hob = drive[o].hob
                                          /\ drive'[o].file = drive[o].file
      BY <1>1, <1>2, <1>3, <1>5, <1>8, WriteStep, Zenon
    <2>2. Quiet'
      BY <1>8, <2>1 DEF Quiet, QuietBut
    <2>3. Agree'
      BY <1>1, <1>3, <1>8, <2>1, AgreeWritten DEF Stepped
    <2> QED
      BY <2>1, <2>2, <2>3
  <1>9. ASSUME NEW w, Is(todo[1], "out", c, 12, w)
        PROVE  /\ Stepped /\ FilesKept /\ in' = in
               /\ \A o \in Channels :
                    drive'[o].hob = IF o = c /\ o \in present THEN 7 \in w ELSE drive[o].hob
    BY <1>1, <1>2, <1>3, <1>9, ControlStep, Zenon
  <1>10. CASE Len(todo) = 1 /\ Is(todo[1], "out", c, r, v) /\ Quiet /\ AgreeAfter(c, r, v)
    <2>1. Stepped /\ Quiet' /\ Agree'
      BY <1>8, <1>10, AllButOne
    <2> QED
      BY <1>10, <2>1 DEF Stepped, WriteAhead
  <1>11. CASE /\ Len(todo) = 3 /\ HobOn(todo[1], c) /\ Is(todo[2], "out", c, r, v)
              /\ HobOff(todo[3], c) /\ Quiet /\ AgreeAfter(c, r, v)
    <2>1. /\ Stepped /\ FilesKept
          /\ \A o \in Channels :
               drive'[o].hob = IF o = c /\ o \in present THEN 7 \in {7} ELSE drive[o].hob
      BY <1>9, <1>11 DEF HobOn
    <2>2. \A o \in Channels : o # c => ~drive'[o].hob
      BY <1>11, <2>1 DEF Quiet
    <2>3. Len(todo') = 2 /\ todo'[1] = todo[2] /\ todo'[2] = todo[3]
      BY <1>11, <2>1 DEF Stepped
    <2>4. \A o \in Channels, q \in Pairs :
           FileAgrees(expect'[o][q], IF o = c /\ q = r THEN <<v, drive'[o].file[q][1]>>
                                     ELSE drive'[o].file[q])
      BY <1>11, <2>1, AgreeAfterKept DEF Stepped
    <2>5. ASSUME c' = c PROVE AgreeAfter(c, r, v)' /\ QuietBut(c)'
      BY <2>2, <2>4, <2>5 DEF AgreeAfter, QuietBut
    <2> QED
      BY <1>7, <1>11, <2>1, <2>3, <2>5 DEF WriteAhead, HobOff
  <1>12. CASE /\ Len(todo) = 2 /\ Is(todo[1], "out", c, r, v) /\ HobOff(todo[2], c)
              /\ QuietBut(c) /\ AgreeAfter(c, r, v)
    <2>1. Stepped /\ Quiet' /\ Agree'
      BY <1>8, <1>12
    <2>2. Len(todo') = 1 /\ todo'[1] = todo[2]
      BY <1>12, <2>1 DEF Stepped
    <2>3. ASSUME c' = c PROVE QuietBut(c)'
      BY <2>1 DEF Quiet, QuietBut
    <2> QED
      BY <1>7, <1>12, <2>1, <2>2, <2>3 DEF WriteAhead, HobOff
  <1>13. CASE Len(todo) = 1 /\ HobOff(todo[1], c) /\ QuietBut(c) /\ Agree
    <2>1. /\ Stepped /\ FilesKept
          /\ \A o \in Channels :
               drive'[o].hob = IF o = c /\ o \in present THEN 7 \in {} ELSE drive[o].hob
      BY <1>9, <1>13 DEF HobOff
    <2>2. Quiet'
      BY <1>3, <1>13, <2>1, HobTurnedOff
    <2>3. todo' = <<>> /\ Agree'
      BY <1>13, <2>1, AgreeKept DEF Stepped
    <2> QED
      BY <2>1, <2>2, <2>3 DEF WriteAhead
  <1> QED
    BY <1>2, <1>4, <1>10, <1>11, <1>12, <1>13 DEF WriteAhead

LEMMA AccessInv == ASSUME IInv, Access PROVE IInv'
  BY InitializingAccess, WritingAccess, ReadingAccess, CommandingAccess, PollingAccess,
     BufferingAccess, ReportingAccess DEF IInv, State

-----------------------------------------------------------------------------
(* Calls.                                                                  *)

(* Whoever may call finds HOB off and every pair as it was given.          *)
LEMMA AtRest ==
  ASSUME State, at = "idle", todo = <<>> PROVE Quiet /\ Agree
  <1>1. CASE Writing
    BY <1>1 DEF Writing, WriteAhead
  <1>2. CASE Reading
    BY <1>2 DEF Reading, ReadAhead
  <1> QED
    BY <1>1, <1>2 DEF State, Initializing, Commanding, Polling, Buffering, Reporting

CallTyped ==
  /\ at = "idle" /\ todo = <<>> /\ in' = {} /\ todo' \in Seq(Accesses)
  /\ UNCHANGED <<channels, present, drive, outcome, answer>>
  /\ expect' \in [Channels -> [Pairs -> Seq(Byte)]]

LEMMA CallKeeps ==
  ASSUME IInv, CallTyped PROVE Typed' /\ Wired' /\ Working' /\ Quiet'
  <1>1. Typed /\ Wired /\ Working /\ State
    BY DEF IInv
  <1>2. Typed'
    BY <1>1 DEF Typed, CallTyped, Byte
  <1>3. Wired'
    BY <1>1 DEF Wired, CallTyped
  <1>4. Working'
    BY <1>1 DEF Working, CallTyped
  <1>5. Quiet'
    BY <1>1, AtRest DEF Quiet, CallTyped
  <1> QED
    BY <1>2, <1>3, <1>4, <1>5

LEMMA CallAgrees ==
  ASSUME IInv, CallTyped, expect' = expect PROVE Agree'
  <1>1. Agree /\ drive' = drive
    BY AtRest DEF IInv, CallTyped
  <1> QED
    BY <1>1 DEF Agree

LEMMA CallIs ==
  ASSUME NEW name, NEW c, NEW x, NEW accesses, Call(name, c, x, accesses)
  PROVE  /\ at = "idle" /\ todo = <<>> /\ in' = {} /\ todo' = accesses
         /\ UNCHANGED <<channels, present, drive, outcome>>
         /\ call'.name = name /\ call'.c = c /\ call'.x = x
  BY DEF Call

(* What a plan around one access holds.                                    *)
LEMMA Planned ==
  ASSUME Wired, NEW c \in Channels, NEW reg \in 0 .. 12, NEW a \in Accesses
  PROVE  /\ Around(c, reg, a) \in Seq(Accesses)
         /\ ~Hob(reg) => Around(c, reg, a) = <<a>>
         /\ Hob(reg) => /\ Len(Around(c, reg, a)) = 3 /\ HobOn(Around(c, reg, a)[1], c)
                        /\ Around(c, reg, a)[2] = a /\ HobOff(Around(c, reg, a)[3], c)
  <1> DEFINE on == Out(c, 12, {7})
             off == Out(c, 12, {})
  <1>1. 12 \in 0 .. 12 /\ {7} \in Byte /\ {} \in Byte
    BY DEF Byte
  <1>2. Behind(12) = 12
    BY DEF Behind, Hob
  <1>3. on \in Accesses /\ HobOn(on, c)
    BY <1>1, <1>2, OutIs DEF HobOn
  <1>4. off \in Accesses /\ HobOff(off, c)
    BY <1>1, <1>2, OutIs DEF HobOff
  <1>5. {7} \cup {} = {7}
    OBVIOUS
  <1>6. Around(c, reg, a) = IF Hob(reg) THEN <<on, a, off>> ELSE <<a>>
    BY <1>5 DEF Around, nIEN, ATA_REG_CONTROL
  <1> HIDE DEF on, off
  <1>7. CASE Hob(reg)
    BY <1>3, <1>4, <1>6, <1>7
  <1>8. CASE ~Hob(reg)
    BY <1>6, <1>8
  <1> QED
    BY <1>7, <1>8

LEMMA PlansWrite ==
  ASSUME Wired, NEW c \in Channels, NEW reg \in 0 .. 12, NEW v \in Byte,
         NEW p, p = ide_write(c, reg, v)
  PROVE  /\ p \in Seq(Accesses)
         /\ ~Hob(reg) => Len(p) = 1 /\ Is(p[1], "out", c, Behind(reg), v)
         /\ Hob(reg) => /\ Len(p) = 3 /\ HobOn(p[1], c)
                        /\ Is(p[2], "out", c, Behind(reg), v) /\ HobOff(p[3], c)
  <1> DEFINE a == Out(c, reg, v)
  <1>1. a \in Accesses /\ Is(a, "out", c, Behind(reg), v)
    BY OutIs
  <1>2. p = Around(c, reg, a)
    BY DEF ide_write
  <1> HIDE DEF a
  <1>3. /\ p \in Seq(Accesses)
        /\ ~Hob(reg) => p = <<a>>
        /\ Hob(reg) => Len(p) = 3 /\ HobOn(p[1], c) /\ p[2] = a /\ HobOff(p[3], c)
    <2>1. /\ Around(c, reg, a) \in Seq(Accesses)
          /\ ~Hob(reg) => Around(c, reg, a) = <<a>>
          /\ Hob(reg) => /\ Len(Around(c, reg, a)) = 3 /\ HobOn(Around(c, reg, a)[1], c)
                         /\ Around(c, reg, a)[2] = a /\ HobOff(Around(c, reg, a)[3], c)
      BY <1>1, Planned, Zenon
    <2> QED
      BY <1>2, <2>1, Zenon
  <1> QED
    BY <1>1, <1>3

LEMMA PlansRead ==
  ASSUME Wired, NEW c \in Channels, NEW reg \in 0 .. 12, NEW p, p = ide_read(c, reg)
  PROVE  /\ p \in Seq(Accesses)
         /\ ~Hob(reg) => Len(p) = 1 /\ Is(p[1], "in", c, Behind(reg), {})
         /\ Hob(reg) => /\ Len(p) = 3 /\ HobOn(p[1], c)
                        /\ Is(p[2], "in", c, Behind(reg), {}) /\ HobOff(p[3], c)
  <1> DEFINE a == In(c, reg)
  <1>1. a \in Accesses /\ Is(a, "in", c, Behind(reg), {})
    BY InIs
  <1>2. p = Around(c, reg, a)
    BY DEF ide_read
  <1> HIDE DEF a
  <1>3. /\ p \in Seq(Accesses)
        /\ ~Hob(reg) => p = <<a>>
        /\ Hob(reg) => Len(p) = 3 /\ HobOn(p[1], c) /\ p[2] = a /\ HobOff(p[3], c)
    <2>1. /\ Around(c, reg, a) \in Seq(Accesses)
          /\ ~Hob(reg) => Around(c, reg, a) = <<a>>
          /\ Hob(reg) => /\ Len(Around(c, reg, a)) = 3 /\ HobOn(Around(c, reg, a)[1], c)
                         /\ Around(c, reg, a)[2] = a /\ HobOff(Around(c, reg, a)[3], c)
      BY <1>1, Planned, Zenon
    <2> QED
      BY <1>2, <2>1, Zenon
  <1> QED
    BY <1>1, <1>3

(* The registers callers use.                                              *)
Numbers == Pairs \cup {r + 6 : r \in Pairs}

LEMMA NumberFacts ==
  ASSUME NEW reg \in Numbers
  PROVE  \E r \in Pairs : /\ reg = r \/ reg = r + 6
                          /\ reg \in 0 .. 12 /\ Behind(reg) = r
                          /\ Hob(reg) <=> reg = r + 6
  <1>1. PICK r \in Pairs : reg = r \/ reg = r + 6
    BY DEF Numbers
  <1>2. r \in 2 .. 5 /\ ~Hob(r) /\ Hob(r + 6) /\ Behind(r) = r /\ Behind(r + 6) = r
    BY PairFacts
  <1>3. r # r + 6 /\ r \in 0 .. 12 /\ r + 6 \in 0 .. 12
    BY <1>2
  <1>4. CASE reg = r
    BY <1>2, <1>3, <1>4
  <1>5. CASE reg = r + 6
    BY <1>2, <1>3, <1>5
  <1> QED
    BY <1>1, <1>4, <1>5

LEMMA ReadInv ==
  ASSUME IInv, NEW c \in present, NEW reg \in Numbers, CallRead(c, reg) PROVE IInv'
  <1>1. Typed /\ Wired /\ c \in Channels
    BY DEF IInv, Typed
  <1>2. Call("read", c, reg, ide_read(c, reg)) /\ UNCHANGED <<at, answer, expect>>
    BY DEF CallRead
  <1>3. /\ at = "idle" /\ todo = <<>> /\ in' = {} /\ todo' = ide_read(c, reg)
        /\ UNCHANGED <<channels, present, drive, outcome>>
        /\ call'.name = "read" /\ call'.c = c /\ call'.x = reg
    BY <1>2, CallIs, Zenon
  <1>4. PICK r \in Pairs : /\ reg = r \/ reg = r + 6
                           /\ reg \in 0 .. 12 /\ Behind(reg) = r
                           /\ Hob(reg) <=> reg = r + 6
    BY NumberFacts
  <1>5. /\ todo' \in Seq(Accesses)
        /\ ~Hob(reg) => Len(todo') = 1 /\ Is(todo'[1], "in", c, r, {})
        /\ Hob(reg) => /\ Len(todo') = 3 /\ HobOn(todo'[1], c)
                       /\ Is(todo'[2], "in", c, r, {}) /\ HobOff(todo'[3], c)
    <2>1. /\ todo' \in Seq(Accesses)
          /\ ~Hob(reg) => Len(todo') = 1 /\ Is(todo'[1], "in", c, Behind(reg), {})
          /\ Hob(reg) => /\ Len(todo') = 3 /\ HobOn(todo'[1], c)
                         /\ Is(todo'[2], "in", c, Behind(reg), {}) /\ HobOff(todo'[3], c)
      BY <1>1, <1>3, <1>4, PlansRead, Zenon
    <2> QED
      BY <1>4, <2>1, Zenon
  <1>6. CallTyped
    BY <1>1, <1>2, <1>3, <1>5 DEF CallTyped, Typed
  <1>7. Typed' /\ Wired' /\ Working' /\ Quiet' /\ Agree'
    BY <1>2, <1>6, CallKeeps, CallAgrees
  <1>8. ReadAhead(call.c, call.x, r)'
    <2>1. CASE reg = r
      <3>1. Len(todo') = 1 /\ Is(todo'[1], "in", c, r, {})
        BY <1>4, <1>5, <2>1, PairFacts
      <3> QED
        BY <1>3, <1>7, <2>1, <3>1 DEF ReadAhead
    <2>2. CASE reg = r + 6
      <3>1. /\ Len(todo') = 3 /\ HobOn(todo'[1], c)
            /\ Is(todo'[2], "in", c, r, {}) /\ HobOff(todo'[3], c)
        BY <1>4, <1>5, <2>2
      <3> QED
        BY <1>3, <1>7, <2>2, <3>1 DEF ReadAhead, HobOn, HobOff
    <2> QED
      BY <1>4, <2>1, <2>2
  <1>9. Reading'
    BY <1>2, <1>3, <1>7, <1>8 DEF Reading
  <1> QED
    BY <1>7, <1>9 DEF IInv, State

LEMMA CommandInv ==
  ASSUME IInv, NEW c \in Channels, CallCommand(c) PROVE IInv'
  <1>1. Typed /\ Wired
    BY DEF IInv
  <1>2. /\ Call("command", c, 7, ide_write(c, 7, {})) /\ UNCHANGED <<at, answer, expect>>
        /\ outcome[c] # BusyStatus
    BY DEF CallCommand, ATA_REG_COMMAND, BusyStatus
  <1>3. /\ at = "idle" /\ todo = <<>> /\ in' = {} /\ todo' = ide_write(c, 7, {})
        /\ UNCHANGED <<channels, present, drive, outcome>>
        /\ call'.name = "command" /\ call'.c = c
    BY <1>2, CallIs, Zenon
  <1>4. 7 \in 0 .. 12 /\ ~Hob(7) /\ Behind(7) = 7 /\ {} \in Byte
    BY DEF Hob, Behind, Byte
  <1>5. todo' \in Seq(Accesses) /\ Len(todo') = 1 /\ Is(todo'[1], "out", c, 7, {})
    BY <1>1, <1>3, <1>4, PlansWrite
  <1>6. CallTyped
    BY <1>1, <1>2, <1>3, <1>5 DEF CallTyped, Typed
  <1>7. Typed' /\ Wired' /\ Working' /\ Quiet' /\ Agree'
    BY <1>2, <1>6, CallKeeps, CallAgrees
  <1>8. Commanding'
    BY <1>2, <1>3, <1>5, <1>7 DEF Commanding
  <1> QED
    BY <1>7, <1>8 DEF IInv, State

LEMMA FourAndOne ==
  ASSUME NEW w \in Seq(Accesses), NEW p \in Seq(Accesses), Len(w) = 4, Len(p) = 1
  PROVE  /\ w \o p \in Seq(Accesses) /\ Len(w \o p) = 5 /\ (w \o p)[5] = p[1]
         /\ \A i \in 1 .. 4 : (w \o p)[i] = w[i]
  <1> DEFINE t == w \o p
  <1>1. /\ t \in Seq(Accesses) /\ Len(t) = Len(w) + Len(p)
        /\ \A i \in 1 .. Len(w) + Len(p) :
             t[i] = IF i <= Len(w) THEN w[i] ELSE p[i - Len(w)]
    BY ConcatProperties, Zenon
  <1> HIDE DEF t
  <1>2. /\ t \in Seq(Accesses) /\ Len(t) = 5 /\ t[5] = p[1]
        /\ \A i \in 1 .. 4 : t[i] = w[i]
    BY <1>1
  <1> QED
    BY <1>2 DEF t

LEMMA PollingInv ==
  ASSUME IInv, NEW c \in Channels, NEW x \in {0, 1}, CallPolling(c, x) PROVE IInv'
  <1> DEFINE p == ide_read(c, 7)
             w == Delay(c)
  <1>1. Typed /\ Wired
    BY DEF IInv
  <1>2. Call("polling", c, x, w \o p) /\ at' = "wait" /\ UNCHANGED <<answer, expect>>
    BY DEF CallPolling, ATA_REG_STATUS
  <1>3. /\ at = "idle" /\ todo = <<>> /\ in' = {} /\ todo' = w \o p
        /\ UNCHANGED <<channels, present, drive, outcome>>
        /\ call'.name = "polling" /\ call'.c = c /\ call'.x = x
    <2> HIDE DEF p, w
    <2> QED
      BY <1>2, CallIs, Zenon
  <1>4. 7 \in 0 .. 12 /\ ~Hob(7) /\ Behind(7) = 7 /\ 12 \in 0 .. 12 /\ Behind(12) = 12
    BY DEF Hob, Behind
  <1>5. p \in Seq(Accesses) /\ Len(p) = 1 /\ Is(p[1], "in", c, 7, {})
    BY <1>1, <1>4, PlansRead
  <1>6. In(c, 12) \in Accesses /\ Is(In(c, 12), "in", c, 12, {})
    BY <1>1, <1>4, InIs
  <1>7. w = [i \in 1 .. 4 |-> In(c, 12)]
    BY DEF Delay, ATA_REG_ALTSTATUS
  <1> HIDE DEF p, w
  <1>8. w \in Seq(Accesses) /\ Len(w) = 4 /\ \A i \in 1 .. 4 : w[i] = In(c, 12)
    BY <1>6, <1>7
  <1>9. /\ todo' \in Seq(Accesses) /\ Len(todo') = 5 /\ todo'[5] = p[1]
        /\ \A i \in 1 .. 4 : todo'[i] = In(c, 12)
    <2>1. /\ w \o p \in Seq(Accesses) /\ Len(w \o p) = 5 /\ (w \o p)[5] = p[1]
          /\ \A i \in 1 .. 4 : (w \o p)[i] = w[i]
      BY <1>5, <1>8, FourAndOne
    <2> HIDE DEF p, w
    <2>2. todo' = w \o p
      BY <1>3
    <2> QED
      BY <1>8, <2>1, <2>2, Zenon
  <1>10. CallTyped
    BY <1>1, <1>2, <1>3, <1>9 DEF CallTyped, Typed
  <1>11. Typed' /\ Wired' /\ Working' /\ Quiet' /\ Agree'
    BY <1>2, <1>10, CallKeeps, CallAgrees
  <1>12. ASSUME NEW i \in 1 .. Len(todo')
         PROVE  Is(todo'[i], "in", c, IF i = Len(todo') THEN 7 ELSE 12, {})
    BY <1>5, <1>6, <1>9
  <1>13. drive'[c].unsettled <= 4
    <2>1. drive'[c] \in Drive
      BY <1>11 DEF Typed
    <2> QED
      BY <2>1 DEF Drive
  <1>14. PollAhead(call.c)'
    <2>1. Len(todo') <= 5 /\ todo' # <<>>
      <3>1. Len(todo') = 5
        BY <1>9
      <3> QED
        BY <3>1
    <2>2. drive'[c].unsettled <= IF Len(todo') = 0 THEN 0 ELSE Len(todo') - 1
      BY <1>9, <1>13
    <2> QED
      BY <1>3, <1>12, <2>1, <2>2 DEF PollAhead
  <1>15. Polling'
    BY <1>2, <1>3, <1>11, <1>14 DEF Polling
  <1> QED
    BY <1>11, <1>15 DEF IInv, State

LEMMA Pushed ==
  ASSUME NEW e \in Seq(Byte), Len(e) = 1, NEW v \in Byte
  PROVE  /\ <<v>> \o e \in Seq(Byte) /\ Len(<<v>> \o e) = 2
         /\ (<<v>> \o e)[1] = v /\ (<<v>> \o e)[2] = e[1]
  <1> DEFINE s == <<v>>
             t == s \o e
  <1>1. s \in Seq(Byte) /\ Len(s) = 1 /\ s[1] = v
    OBVIOUS
  <1> HIDE DEF s
  <1>2. /\ t \in Seq(Byte) /\ Len(t) = Len(s) + Len(e)
        /\ \A i \in 1 .. Len(s) + Len(e) :
             t[i] = IF i <= Len(s) THEN s[i] ELSE e[i - Len(s)]
    BY <1>1, ConcatProperties, Zenon
  <1> HIDE DEF t
  <1>3. t \in Seq(Byte) /\ Len(t) = 2 /\ t[1] = v /\ t[2] = e[1]
    BY <1>1, <1>2
  <1> QED
    BY <1>3 DEF t, s

(* What a pair should hold once the write of v to register reg is over.    *)
Given(e, reg, q, v) ==
  IF reg = q + 6 THEN <<v>>
  ELSE IF reg # q THEN e
  ELSE IF Len(e) = 1 THEN <<v>> \o e ELSE <<>>

LEMMA GivenFacts ==
  ASSUME NEW r \in Pairs, NEW q \in Pairs, NEW reg, reg = r \/ reg = r + 6,
         NEW v \in Byte, NEW e \in Seq(Byte), NEW f, FileAgrees(e, f)
  PROVE  /\ Given(e, reg, q, v) \in Seq(Byte)
         /\ FileAgrees(Given(e, reg, q, v), IF q = r THEN <<v, f[1]>> ELSE f)
  <1>1. r \in 2 .. 5 /\ q \in 2 .. 5
    BY IdeAssumption
  <1>2. CASE q # r
    <2>1. Given(e, reg, q, v) = e
      BY <1>1, <1>2 DEF Given
    <2> QED
      BY <1>2, <2>1
  <1>3. CASE q = r /\ reg = r + 6
    <2>1. Given(e, reg, q, v) = <<v>>
      BY <1>3 DEF Given
    <2>2. <<v>> \in Seq(Byte) /\ FileAgrees(<<v>>, <<v, f[1]>>)
      BY DEF FileAgrees
    <2> QED
      BY <1>3, <2>1, <2>2
  <1>4. CASE q = r /\ reg = r /\ Len(e) = 1
    <2> DEFINE t == <<v>> \o e
    <2>1. Given(e, reg, q, v) = t
      BY <1>1, <1>4 DEF Given
    <2>2. t \in Seq(Byte) /\ Len(t) = 2 /\ t[1] = v /\ t[2] = e[1]
      BY <1>4, Pushed
    <2> HIDE DEF t
    <2>3. FileAgrees(t, <<v, f[1]>>)
      BY <1>4, <2>2 DEF FileAgrees
    <2> QED
      BY <1>4, <2>1, <2>2, <2>3
  <1>5. CASE q = r /\ reg = r /\ Len(e) # 1
    <2>1. Given(e, reg, q, v) = <<>>
      BY <1>1, <1>5 DEF Given
    <2>2. <<>> \in Seq(Byte) /\ FileAgrees(<<>>, <<v, f[1]>>)
      BY DEF FileAgrees
    <2> QED
      BY <1>5, <2>1, <2>2
  <1> QED
    BY <1>2, <1>3, <1>4, <1>5

LEMMA WriteInv ==
  ASSUME IInv, NEW c \in present, NEW reg \in Numbers, NEW v \in Values, CallWrite(c, reg, v)
  PROVE  IInv'
  <1>1. Typed /\ Wired /\ State /\ c \in Channels /\ v \in Byte
    BY IdeAssumption DEF IInv, Typed, Byte
  <1>2. Call("write", c, reg, ide_write(c, reg, v)) /\ UNCHANGED <<at, answer>>
    BY DEF CallWrite
  <1>3. /\ at = "idle" /\ todo = <<>> /\ in' = {} /\ todo' = ide_write(c, reg, v)
        /\ UNCHANGED <<channels, present, drive, outcome>>
        /\ call'.name = "write" /\ call'.c = c /\ call'.x = reg
    BY <1>2, CallIs, Zenon
  <1>4. PICK r \in Pairs : /\ reg = r \/ reg = r + 6
                           /\ reg \in 0 .. 12 /\ Behind(reg) = r
                           /\ Hob(reg) <=> reg = r + 6
    BY NumberFacts
  <1>5. /\ todo' \in Seq(Accesses)
        /\ ~Hob(reg) => Len(todo') = 1 /\ Is(todo'[1], "out", c, r, v)
        /\ Hob(reg) => /\ Len(todo') = 3 /\ HobOn(todo'[1], c)
                       /\ Is(todo'[2], "out", c, r, v) /\ HobOff(todo'[3], c)
    <2>1. /\ todo' \in Seq(Accesses)
          /\ ~Hob(reg) => Len(todo') = 1 /\ Is(todo'[1], "out", c, Behind(reg), v)
          /\ Hob(reg) => /\ Len(todo') = 3 /\ HobOn(todo'[1], c)
                         /\ Is(todo'[2], "out", c, Behind(reg), v) /\ HobOff(todo'[3], c)
      BY <1>1, <1>3, <1>4, PlansWrite, Zenon
    <2> QED
      BY <1>4, <2>1, Zenon
  <1>6. expect' = [expect EXCEPT ![c] = [q \in Pairs |-> Given(expect[c][q], reg, q, v)]]
    BY DEF CallWrite, Given
  <1>7. ASSUME NEW q \in Pairs
        PROVE  /\ Given(expect[c][q], reg, q, v) \in Seq(Byte)
               /\ FileAgrees(Given(expect[c][q], reg, q, v),
                             IF q = r THEN <<v, drive[c].file[q][1]>> ELSE drive[c].file[q])
    <2>1. expect[c][q] \in Seq(Byte) /\ FileAgrees(expect[c][q], drive[c].file[q])
      BY <1>1, <1>3, AtRest DEF Typed, Agree
    <2> QED
      BY <1>1, <1>4, <2>1, GivenFacts, Zenon
  <1>8. expect \in [Channels -> [Pairs -> Seq(Byte)]]
    BY <1>1 DEF Typed
  <1>9. /\ expect' \in [Channels -> [Pairs -> Seq(Byte)]]
        /\ expect'[c] = [q \in Pairs |-> Given(expect[c][q], reg, q, v)]
        /\ \A o \in Channels : o # c => expect'[o] = expect[o]
    <2> DEFINE g == [q \in Pairs |-> Given(expect[c][q], reg, q, v)]
    <2>1. g \in [Pairs -> Seq(Byte)]
      BY <1>7
    <2>2. expect' = [expect EXCEPT ![c] = g]
      BY <1>6
    <2> HIDE DEF g
    <2>3. /\ expect' \in [Channels -> [Pairs -> Seq(Byte)]] /\ expect'[c] = g
          /\ \A o \in Channels : o # c => expect'[o] = expect[o]
      BY <1>1, <1>8, <2>1, <2>2
    <2> QED
      BY <2>3 DEF g
  <1>10. CallTyped
    BY <1>1, <1>2, <1>3, <1>5, <1>9 DEF CallTyped
  <1>11. Typed' /\ Wired' /\ Working' /\ Quiet'
    BY <1>10, CallKeeps
  <1>12. ASSUME NEW o \in Channels, NEW q \in Pairs
         PROVE  FileAgrees(expect'[o][q], IF o = c /\ q = r THEN <<v, drive'[o].file[q][1]>>
                                          ELSE drive'[o].file[q])
    <2>1. CASE o = c
      <3>1. expect'[o][q] = Given(expect[c][q], reg, q, v) /\ drive' = drive
        BY <1>3, <1>9, <2>1
      <3> QED
        BY <1>7, <2>1, <3>1
    <2>2. CASE o # c
      <3>1. expect'[o][q] = expect[o][q] /\ drive' = drive
        BY <1>3, <1>9, <2>2
      <3>2. FileAgrees(expect[o][q], drive[o].file[q])
        BY <1>1, <1>3, AtRest DEF Agree
      <3> QED
        BY <2>2, <3>1, <3>2
    <2> QED
      BY <2>1, <2>2
  <1>13. AgreeAfter(call.c, r, v)'
    BY <1>3, <1>12 DEF AgreeAfter
  <1>14. WriteAhead(call.c, r, v)'
    <2>1. CASE ~Hob(reg)
      BY <1>3, <1>5, <1>11, <1>13, <2>1 DEF WriteAhead
    <2>2. CASE Hob(reg)
      BY <1>3, <1>5, <1>11, <1>13, <2>2 DEF WriteAhead, HobOn, HobOff
    <2> QED
      BY <2>1, <2>2
  <1>15. Writing'
    BY <1>1, <1>2, <1>3, <1>14 DEF Writing
  <1> QED
    BY <1>11, <1>15 DEF IInv, State

LEMMA BufferInv ==
  ASSUME IInv, NEW c \in Channels, CallReadBuffer(c) PROVE IInv'
  <1>1. Typed /\ Wired /\ Working /\ State
    BY DEF IInv
  <1>2. /\ Call("buffer", c, 0, <<In(c, 0)>>) /\ UNCHANGED <<at, answer, expect>>
        /\ call.name = "polling" /\ call.c = c
    BY DEF CallReadBuffer, ATA_REG_DATA
  <1>3. /\ at = "idle" /\ todo = <<>> /\ in' = {} /\ todo' = <<In(c, 0)>>
        /\ UNCHANGED <<channels, present, drive, outcome>>
        /\ call'.name = "buffer" /\ call'.c = c
    BY <1>2, CallIs, Zenon
  <1>4. 0 \in 0 .. 12 /\ Behind(0) = 0
    BY DEF Behind, Hob
  <1>5. In(c, 0) \in Accesses /\ Is(In(c, 0), "in", c, 0, {})
    BY <1>1, <1>4, InIs
  <1>6. todo' \in Seq(Accesses) /\ Len(todo') = 1 /\ Is(todo'[1], "in", c, 0, {})
    BY <1>3, <1>5
  <1>7. Settled(c)
    BY <1>1, <1>2, <1>3 DEF State, Initializing, Writing, Reading, Commanding, Polling, Polled,
                            Buffering, Reporting
  <1>8. outcome[c] # BusyStatus
    BY <1>1, <1>7, StatusFacts DEF Working, Works, Settled
  <1>9. CallTyped
    BY <1>1, <1>2, <1>3, <1>6 DEF CallTyped, Typed
  <1>10. Typed' /\ Wired' /\ Working' /\ Quiet' /\ Agree'
    BY <1>2, <1>9, CallKeeps, CallAgrees
  <1>11. Buffering'
    BY <1>2, <1>3, <1>6, <1>8, <1>10 DEF Buffering
  <1> QED
    BY <1>10, <1>11 DEF IInv, State

LEMMA ReportInv ==
  ASSUME IInv, CallPrintError PROVE IInv'
  <1> DEFINE c == call.c
             s == drive[c].status
             p == IF answer = 2 THEN ide_read(0, 1) ELSE <<>>
  <1>1. Typed /\ Wired /\ Working /\ State
    BY DEF IInv
  <1>2. /\ Call("print_error", c, answer, p)
        /\ at' = "error" /\ UNCHANGED <<answer, expect>>
        /\ call.name = "polling" /\ answer # 0
    BY DEF CallPrintError, ATA_PRIMARY, ATA_REG_ERROR
  <1>3. /\ at = "idle" /\ todo = <<>> /\ in' = {} /\ todo' = p
        /\ UNCHANGED <<channels, present, drive, outcome>>
        /\ call'.name = "print_error" /\ call'.c = c /\ call'.x = answer
    <2> HIDE DEF p, c
    <2> QED
      BY <1>2, CallIs, Zenon
  <1>4. 1 \in 0 .. 12 /\ Behind(1) = 1 /\ ~Hob(1) /\ 0 \in Channels
    BY ChannelFacts DEF Behind, Hob
  <1>5. /\ ide_read(0, 1) \in Seq(Accesses) /\ Len(ide_read(0, 1)) = 1
        /\ Is(ide_read(0, 1)[1], "in", 0, 1, {})
    BY <1>1, <1>4, PlansRead
  <1>6. p \in Seq(Accesses) /\ (p = <<>> \/ (Len(p) = 1 /\ Is(p[1], "in", 0, 1, {})))
    <2> DEFINE q == ide_read(0, 1)
    <2>1. q \in Seq(Accesses) /\ Len(q) = 1 /\ Is(q[1], "in", 0, 1, {})
      BY <1>5
    <2>2. (answer = 2 => p = q) /\ (answer # 2 => p = <<>>)
      OBVIOUS
    <2>3. <<>> \in Seq(Accesses)
      OBVIOUS
    <2> HIDE DEF p, q
    <2> QED
      BY <2>1, <2>2, <2>3
  <1>7. Polled(c, call.x) /\ call.x \in {0, 1}
    BY <1>1, <1>2, <1>3 DEF State, Initializing, Writing, Reading, Commanding, Polling,
                            Buffering, Reporting
  <1>8. Settled(c) /\ answer = Checked(s)
    BY <1>2, <1>7 DEF Polled
  <1>9. answer \in {1, 2, 3}
    BY <1>2, <1>8, CheckedFacts DEF Settled
  <1> HIDE DEF p
  <1>10. CallTyped
    BY <1>1, <1>2, <1>3, <1>6 DEF CallTyped, Typed
  <1>11. Typed' /\ Wired' /\ Working' /\ Quiet' /\ Agree'
    BY <1>2, <1>10, CallKeeps, CallAgrees
  <1>12. Settled(call.c)'
    BY <1>3, <1>8 DEF Settled
  <1>13. Reporting'
    BY <1>2, <1>3, <1>6, <1>8, <1>9, <1>11, <1>12 DEF Reporting
  <1> QED
    BY <1>11, <1>13 DEF IInv, State

-----------------------------------------------------------------------------
(* What follows an access, and the drives.                                 *)

StepTyped ==
  /\ UNCHANGED <<channels, present, drive, call, in, outcome, expect>>
  /\ answer' \in {0, 1, 2, 3, 7, 13, 19, 20, 21, 22, 23} /\ todo' \in Seq(Accesses)

LEMMA StepKeeps ==
  ASSUME IInv, Quiet, Agree, StepTyped
  PROVE  Typed' /\ Wired' /\ Working' /\ Quiet' /\ Agree'
  <1>1. Typed /\ Wired /\ Working
    BY DEF IInv
  <1>2. Typed'
    BY <1>1 DEF Typed, StepTyped
  <1>3. Wired'
    BY <1>1 DEF Wired, StepTyped
  <1>4. Working'
    BY <1>1 DEF Working, StepTyped
  <1>5. Quiet' /\ Agree'
    BY DEF Quiet, Agree, StepTyped
  <1> QED
    BY <1>2, <1>3, <1>4, <1>5

LEMMA PollLoopInv ==
  ASSUME IInv, PollLoop PROVE IInv'
  <1> DEFINE c == call.c
             p == ide_read(c, 7)
  <1>1. Typed /\ Wired /\ Working /\ State
    BY DEF IInv
  <1>2. /\ at = "wait" /\ todo = <<>>
        /\ IF 7 \in in \/ call.x # 0
           THEN todo' = p /\ UNCHANGED answer
           ELSE answer' = 0 /\ UNCHANGED todo
        /\ at' = IF 7 \in in THEN "wait" ELSE IF call.x # 0 THEN "check" ELSE "idle"
        /\ UNCHANGED <<channels, present, drive, call, in, outcome, expect>>
    BY DEF PollLoop, Waits, ATA_REG_STATUS, ATA_SR_BSY
  <1>3. Polling /\ PollAhead(c)
    BY <1>1, <1>2 DEF State, Initializing, Writing, Reading, Commanding, Polling,
                      Buffering, Reporting
  <1>4. /\ c \in Channels /\ call.x \in {0, 1} /\ call.name = "polling" /\ Quiet /\ Agree
        /\ drive[c].unsettled <= 0
        /\ 7 \notin in => Settled(c) /\ in = drive[c].status
    BY <1>2, <1>3 DEF Polling, PollAhead
  <1>5. p \in Seq(Accesses) /\ Len(p) = 1 /\ Is(p[1], "in", c, 7, {})
    <2>1. 7 \in 0 .. 12 /\ Behind(7) = 7 /\ ~Hob(7)
      BY DEF Behind, Hob
    <2> QED
      BY <1>1, <1>4, <2>1, PlansRead
  <1>6. <<>> \in Seq(Accesses)
    OBVIOUS
  <1> HIDE DEF p, c
  <1>7. StepTyped
    BY <1>1, <1>2, <1>5, <1>6 DEF StepTyped, Typed
  <1>8. Typed' /\ Wired' /\ Working' /\ Quiet' /\ Agree'
    BY <1>4, <1>7, StepKeeps
  <1>a. c' = c /\ call' = call /\ drive' = drive /\ in' = in /\ present' = present
    BY <1>2 DEF c
  <1>9. Polling'
    <2>1. CASE 7 \in in
      <3>1. Len(todo') = 1 /\ Is(todo'[1], "in", c, 7, {}) /\ at' = "wait"
        BY <1>2, <1>5, <2>1
      <3>2. ASSUME NEW i \in 1 .. Len(todo')
            PROVE  Is(todo'[i], "in", c, IF i = Len(todo') THEN 7 ELSE 12, {})
        <4>1. i = 1
          BY <3>1
        <4> QED
          BY <3>1, <4>1
      <3>3. todo' # <<>>
        BY <3>1
      <3>4. PollAhead(c)'
        BY <1>4, <1>a, <3>1, <3>2, <3>3 DEF PollAhead
      <3> QED
        BY <1>4, <1>8, <1>a, <3>1, <3>4 DEF Polling, c
    <2>2. CASE 7 \notin in /\ call.x # 0
      <3>1. Len(todo') = 1 /\ Is(todo'[1], "in", c, 7, {}) /\ at' = "check"
        BY <1>2, <1>5, <2>2
      <3>2. CheckAhead(c)'
        BY <1>4, <1>a, <2>2, <3>1 DEF CheckAhead, Settled
      <3> QED
        BY <1>4, <1>8, <1>a, <2>2, <3>1, <3>2 DEF Polling, c
    <2>3. CASE 7 \notin in /\ call.x = 0
      <3>1. todo' = <<>> /\ at' = "idle" /\ answer' = 0
        BY <1>2, <2>3
      <3>2. Polled(c, call.x)'
        BY <1>4, <1>a, <2>3, <3>1 DEF Polled, Settled
      <3> QED
        BY <1>4, <1>8, <1>a, <3>1, <3>2 DEF Polling, c
    <2> QED
      BY <2>1, <2>2, <2>3
  <1> QED
    BY <1>8, <1>9 DEF IInv, State

LEMMA PollCheckInv ==
  ASSUME IInv, PollCheck PROVE IInv'
  <1> DEFINE c == call.c
  <1>1. Typed /\ Wired /\ Working /\ State
    BY DEF IInv
  <1>2. /\ at = "check" /\ todo = <<>> /\ at' = "idle" /\ answer' = Checked(in)
        /\ UNCHANGED <<channels, present, drive, todo, call, in, outcome, expect>>
    BY DEF PollCheck, Returns
  <1>3. Polling /\ call.x = 1 /\ CheckAhead(c)
    BY <1>1, <1>2 DEF State, Initializing, Writing, Reading, Commanding, Polling,
                      Buffering, Reporting
  <1>4. /\ c \in Channels /\ call.name = "polling" /\ Quiet /\ Agree
        /\ Settled(c) /\ in = drive[c].status
    BY <1>2, <1>3 DEF Polling, CheckAhead
  <1>5. Checked(in) \in {0, 1, 2, 3}
    BY <1>4, CheckedFacts DEF Settled
  <1>6. StepTyped
    BY <1>1, <1>2, <1>5 DEF StepTyped, Typed
  <1>7. Typed' /\ Wired' /\ Working' /\ Quiet' /\ Agree'
    BY <1>4, <1>6, StepKeeps
  <1>8. Polled(call.c, call.x)'
    BY <1>2, <1>3, <1>4 DEF Polled, Settled
  <1>9. Polling'
    BY <1>2, <1>3, <1>4, <1>7, <1>8 DEF Polling
  <1> QED
    BY <1>7, <1>9 DEF IInv, State

(* Every bit of the error register has a code of its own, or 3.            *)
LEMMA NamedFacts ==
  ASSUME NEW s \in Byte, s # {} PROVE Named[Max(s)] \in {3, 7, 13, 20, 21, 22}
  <1> DEFINE Top(m) == m \in s /\ \A y \in s : m >= y
  <1>1. Max(s) = CHOOSE m \in s : \A y \in s : m >= y
    BY DEF Max
  <1>2. \E m \in s : \A y \in s : m >= y
    <2>1. \A y \in s : y \in 0 .. 7
      BY DEF Byte
    <2>2. CASE 7 \in s
      BY <2>1, <2>2
    <2>3. CASE 7 \notin s /\ 6 \in s
      BY <2>1, <2>3
    <2>4. CASE s \cap {7, 6} = {} /\ 5 \in s
      BY <2>1, <2>4
    <2>5. CASE s \cap {7, 6, 5} = {} /\ 4 \in s
      BY <2>1, <2>5
    <2>6. CASE s \cap {7, 6, 5, 4} = {} /\ 3 \in s
      BY <2>1, <2>6
    <2>7. CASE s \cap {7, 6, 5, 4, 3} = {} /\ 2 \in s
      BY <2>1, <2>7
    <2>8. CASE s \cap {7, 6, 5, 4, 3, 2} = {}
      <3>1. \A y \in s : y = 0 \/ y = 1
        BY <2>1, <2>8
      <3> QED
        BY <3>1
    <2> QED
      BY <2>2, <2>3, <2>4, <2>5, <2>6, <2>7, <2>8
  <1>3. Max(s) \in s
    BY <1>1, <1>2
  <1>4. Max(s) \in 0 .. 7
    BY <1>3 DEF Byte
  <1> DEFINE m == Max(s)
  <1> HIDE DEF m
  <1>5. m \in 0 .. 7
    BY <1>4 DEF m
  <1>6. Named[m] = <<7, 3, 20, 3, 21, 3, 22, 13>>[m + 1]
    BY <1>5 DEF Named
  <1>7. Named[m] \in {3, 7, 13, 20, 21, 22}
    BY <1>5, <1>6
  <1> QED
    BY <1>7 DEF m

LEMMA PrintErrorInv ==
  ASSUME IInv, PrintError PROVE IInv'
  <1> DEFINE c == call.c
             s == drive[c].status
             value == CASE call.x = 1 -> 19
                        [] call.x = 3 -> 23
                        [] call.x = 2 -> IF in = {} THEN 2 ELSE Named[Max(in)]
  <1>1. Typed /\ Wired /\ Working /\ State
    BY DEF IInv
  <1>2. /\ at = "error" /\ todo = <<>> /\ at' = "idle" /\ answer' = value
        /\ UNCHANGED <<channels, present, drive, todo, call, in, outcome, expect>>
    BY DEF PrintError, Returns
  <1>3. Reporting
    BY <1>1, <1>2 DEF State, Initializing, Writing, Reading, Commanding, Polling,
                      Buffering, Reporting
  <1>4. /\ call.name = "print_error" /\ Quiet /\ Agree /\ Settled(c)
        /\ call.x \in {1, 2, 3} /\ call.x = Checked(s)
    BY <1>2, <1>3 DEF Reporting
  <1>5. (call.x = 1 <=> s = {ATA_SR_DRDY, ATA_SR_DF}) /\ (call.x = 3 <=> s = {ATA_SR_DRDY})
    BY <1>4, CheckedFacts DEF Settled
  <1>6. (IF in = {} THEN 2 ELSE Named[Max(in)]) \in {2, 3, 7, 13, 20, 21, 22}
    BY <1>1, NamedFacts DEF Typed
  <1>7. /\ value \in {2, 3, 7, 13, 19, 20, 21, 22, 23}
        /\ value = 19 <=> call.x = 1
        /\ value = 23 <=> call.x = 3
    <2>1. CASE call.x = 1
      BY <2>1
    <2>2. CASE call.x = 3
      BY <2>2
    <2>3. CASE call.x = 2
      BY <1>6, <2>3
    <2> QED
      BY <1>4, <2>1, <2>2, <2>3
  <1> HIDE DEF value
  <1>8. StepTyped
    BY <1>1, <1>2, <1>7 DEF StepTyped, Typed
  <1>9. Typed' /\ Wired' /\ Working' /\ Quiet' /\ Agree'
    BY <1>4, <1>8, StepKeeps
  <1>10. Settled(call.c)'
    BY <1>2, <1>4 DEF Settled
  <1>11. /\ answer' = 19 <=> drive'[call'.c].status = {ATA_SR_DRDY, ATA_SR_DF}
         /\ answer' = 23 <=> drive'[call'.c].status = {ATA_SR_DRDY}
    BY <1>2, <1>5, <1>7
  <1>12. Reporting'
    BY <1>2, <1>4, <1>9, <1>10, <1>11 DEF Reporting
  <1> QED
    BY <1>9, <1>12 DEF IInv, State

(* A drive moves on only while its command runs, which no point of a call  *)
(* that looks at its status or outcome allows.                             *)
Moves(o) ==
  /\ outcome[o] = BusyStatus
  /\ UNCHANGED <<channels, present, todo, call, at, in, answer, expect>>
  /\ FilesKept /\ HobsKept /\ drive'[o].unsettled = 0
  /\ \A q \in Channels : q # o => drive'[q] = drive[q] /\ outcome'[q] = outcome[q]

LEMMA MovesKeeps ==
  ASSUME IInv, NEW o \in Channels, Moves(o) PROVE State'
  <1> DEFINE c == call.c
  <1>1. Typed /\ Wired /\ Working /\ State
    BY DEF IInv
  <1>2. /\ outcome[o] = BusyStatus
        /\ UNCHANGED <<channels, present, todo, call, at, in, answer, expect>>
        /\ FilesKept /\ HobsKept /\ drive'[o].unsettled = 0
        /\ \A q \in Channels : q # o => drive'[q] = drive[q] /\ outcome'[q] = outcome[q]
    BY DEF Moves
  <1>3. (Quiet => Quiet') /\ (Agree => Agree') /\ (QuietBut(c) => QuietBut(c)')
    BY <1>2, QuietKept, AgreeKept DEF QuietBut, HobsKept
  <1>4. ASSUME Settled(c)
        PROVE  c # o /\ drive'[c] = drive[c] /\ Settled(c)'
    <2>1. c \in Channels
      BY <1>1, <1>4 DEF Settled, Typed
    <2>2. outcome[c] # BusyStatus
      BY <1>1, <1>4, <2>1, StatusFacts DEF Settled, Working, Works
    <2> QED
      BY <1>2, <1>4, <2>1, <2>2 DEF Settled
  <1>5. ASSUME c \in Channels, outcome[c] # BusyStatus PROVE outcome'[c] = outcome[c]
    BY <1>2, <1>5
  <1>6. CASE Initializing
    BY <1>2, <1>3, <1>6 DEF State, Initializing
  <1>7. CASE Writing
    <2>1. c \in present /\ at = "idle" /\ call.name = "write"
      BY <1>7 DEF Writing
    <2>2. PICK r \in Pairs, v \in Byte : WriteAhead(c, r, v)
      BY <1>7 DEF Writing
    <2>3. ASSUME AgreeAfter(c, r, v) PROVE AgreeAfter(c, r, v)'
      <3>1. \A q \in Channels, p \in Pairs :
              FileAgrees(expect'[q][p], IF q = c /\ p = r THEN <<v, drive'[q].file[p][1]>>
                                        ELSE drive'[q].file[p])
        BY <1>2, <2>3, AgreeAfterKept
      <3>2. c' = c
        BY <1>2
      <3> QED
        BY <3>1, <3>2 DEF AgreeAfter
    <2>4. c' = c /\ todo' = todo
      BY <1>2
    <2> HIDE DEF c
    <2>5. WriteAhead(c, r, v)'
      BY <1>3, <2>2, <2>3, <2>4 DEF WriteAhead, HobOn, HobOff
    <2>6. Writing'
      BY <1>2, <2>1, <2>5 DEF Writing, c
    <2> QED
      BY <2>6 DEF State
  <1>8. CASE Reading
    <2>1. c \in present /\ c \in Channels /\ at = "idle" /\ call.name = "read" /\ Agree
      BY <1>1, <1>8 DEF Reading, Typed
    <2>2. PICK r \in Pairs : ReadAhead(c, call.x, r)
      BY <1>8 DEF Reading
    <2>3. drive'[c].file = drive[c].file /\ drive'[c].hob = drive[c].hob
      BY <1>2, <2>1 DEF FilesKept, HobsKept
    <2>4. c' = c /\ todo' = todo /\ call' = call /\ in' = in
      BY <1>2
    <2> HIDE DEF c
    <2>5. ReadAhead(c, call.x, r)'
      BY <1>3, <2>2, <2>3, <2>4 DEF ReadAhead, HobOn, HobOff
    <2>6. Reading'
      BY <1>2, <1>3, <2>1, <2>5 DEF Reading, c
    <2> QED
      BY <2>6 DEF State
  <1>9. CASE Commanding
    <2>1. Commanding'
      BY <1>2, <1>3, <1>5, <1>9 DEF Commanding
    <2> QED
      BY <2>1 DEF State
  <1>10. CASE Buffering
    <2>1. Buffering'
      BY <1>2, <1>3, <1>5, <1>10 DEF Buffering
    <2> QED
      BY <2>1 DEF State
  <1>11. CASE Reporting
    <2>1. Settled(c)' /\ drive'[c] = drive[c] /\ c' = c
      BY <1>2, <1>4, <1>11 DEF Reporting
    <2>2. Reporting'
      BY <1>2, <1>3, <1>11, <2>1 DEF Reporting
    <2> QED
      BY <2>2 DEF State
  <1>12. CASE Polling
    <2>1. c \in Channels /\ c' = c /\ todo' = todo /\ in' = in
      BY <1>2, <1>12 DEF Polling
    <2>2. ASSUME PollAhead(c) PROVE PollAhead(c)'
      <3>1. Len(todo) \in Nat
        BY <1>1 DEF Typed
      <3>2. drive'[c].unsettled <= IF Len(todo) = 0 THEN 0 ELSE Len(todo) - 1
        <4>1. CASE c = o
          BY <1>2, <3>1, <4>1
        <4>2. CASE c # o
          BY <1>2, <2>1, <2>2, <4>2 DEF PollAhead
        <4> QED
          BY <4>1, <4>2
      <3>3. ASSUME todo = <<>>, 7 \notin in PROVE Settled(c)' /\ in = drive'[c].status
        BY <1>4, <2>2, <3>3 DEF PollAhead
      <3> HIDE DEF c
      <3> QED
        BY <2>1, <2>2, <3>2, <3>3 DEF PollAhead
    <2>3. ASSUME CheckAhead(c) PROVE CheckAhead(c)'
      <3>1. Settled(c)' /\ drive'[c] = drive[c]
        BY <1>4, <2>3 DEF CheckAhead
      <3> HIDE DEF c
      <3> QED
        BY <2>1, <2>3, <3>1 DEF CheckAhead
    <2>4. ASSUME Polled(c, call.x) PROVE Polled(c, call.x)'
      <3>1. Settled(c)' /\ drive'[c] = drive[c] /\ call' = call /\ answer' = answer
        BY <1>2, <1>4, <2>4 DEF Polled
      <3> HIDE DEF c
      <3> QED
        BY <2>1, <2>4, <3>1 DEF Polled
    <2>5. Polling'
      BY <1>2, <1>3, <1>12, <2>1, <2>2, <2>3, <2>4 DEF Polling
    <2> QED
      BY <2>5 DEF State
  <1> QED
    BY <1>1, <1>6, <1>7, <1>8, <1>9, <1>10, <1>11, <1>12 DEF State

LEMMA DriveStartsInv ==
  ASSUME IInv, NEW o \in Channels, DriveStarts(o) PROVE IInv'
  <1>1. Typed /\ Wired /\ Working
    BY DEF IInv
  <1>2. /\ drive[o].unsettled > 0
        /\ drive' = [drive EXCEPT ![o].unsettled = 0, ![o].status = BusyStatus]
        /\ UNCHANGED <<channels, present, todo, call, at, in, answer, outcome, expect>>
    BY DEF DriveStarts, BusyStatus
  <1>3. drive \in [Channels -> Drive] /\ drive[o].unsettled \in 0 .. 4
    BY <1>1 DEF Typed, Drive
  <1>4. outcome[o] = BusyStatus /\ o \in present
    BY <1>1, <1>2, <1>3 DEF Working, Works
  <1> DEFINE d == drive[o]
             e == [d EXCEPT !.unsettled = 0, !.status = BusyStatus]
  <1>5. drive' = [drive EXCEPT ![o] = e]
    BY <1>2, <1>3
  <1>6. /\ d \in Drive /\ e \in Drive /\ e.file = d.file /\ e.hob = d.hob
        /\ e.unsettled = 0 /\ e.status = BusyStatus
    <2>1. d \in Drive
      BY <1>3
    <2> QED
      BY <2>1, BusyNow, Zenon
  <1> HIDE DEF e
  <1>7. /\ drive' \in [Channels -> Drive] /\ drive'[o] = e
        /\ \A q \in Channels : q # o => drive'[q] = drive[q]
    BY <1>3, <1>5, <1>6
  <1>8. Moves(o)
    BY <1>2, <1>4, <1>6, <1>7 DEF Moves, FilesKept, HobsKept
  <1>9. State'
    BY <1>8, MovesKeeps
  <1>10. Typed' /\ Wired'
    BY <1>1, <1>2, <1>7 DEF Typed, Wired
  <1>11. ASSUME NEW q \in Channels
         PROVE  /\ Works(drive'[q], outcome'[q])
                /\ q \notin present' => drive'[q].unsettled = 0 /\ drive'[q].status = {ATA_SR_DRDY}
    <2>1. CASE q = o
      <3>1. Works(e, BusyStatus)
        BY <1>6 DEF Works
      <3> QED
        BY <1>2, <1>4, <1>7, <2>1, <3>1
    <2>2. CASE q # o
      BY <1>1, <1>2, <1>7, <2>2 DEF Working
    <2> QED
      BY <2>1, <2>2
  <1>12. Working'
    BY <1>11 DEF Working
  <1> QED
    BY <1>9, <1>10, <1>12 DEF IInv

LEMMA DriveDoneInv ==
  ASSUME IInv, NEW o \in Channels, DriveDone(o) PROVE IInv'
  <1>1. Typed /\ Wired /\ Working
    BY DEF IInv
  <1>2. PICK s \in Statuses, f \in Errors \cup {{}} :
          /\ drive' = [drive EXCEPT ![o].status = s, ![o].error = f]
          /\ outcome' = [outcome EXCEPT ![o] = s]
    BY DEF DriveDone
  <1>3. /\ drive[o].status = BusyStatus
        /\ UNCHANGED <<channels, present, todo, call, at, in, answer, expect>>
    BY DEF DriveDone, BusyStatus
  <1>4. drive \in [Channels -> Drive] /\ drive[o].unsettled \in 0 .. 4
    BY <1>1 DEF Typed, Drive
  <1>5. s \in Byte /\ f \in Byte
    BY IdeAssumption, StatusFacts DEF Byte
  <1>6. drive[o].unsettled = 0 /\ outcome[o] = BusyStatus
    BY <1>1, <1>3, <1>4, StatusFacts DEF Working, Works
  <1>7. o \in present
    <2>1. {ATA_SR_DRDY} # BusyStatus
      BY StatusFacts
    <2> QED
      BY <1>1, <1>3, <2>1 DEF Working
  <1> DEFINE d == drive[o]
             e == [d EXCEPT !.status = s, !.error = f]
  <1>8. drive' = [drive EXCEPT ![o] = e]
    BY <1>2, <1>4
  <1>9. /\ d \in Drive /\ e \in Drive /\ e.file = d.file /\ e.hob = d.hob
        /\ e.unsettled = d.unsettled /\ e.status = s
    <2>1. d \in Drive
      BY <1>4
    <2> HIDE DEF d
    <2> QED
      BY <1>5, <2>1 DEF Drive
  <1> HIDE DEF e
  <1>10. /\ drive' \in [Channels -> Drive] /\ drive'[o] = e
         /\ \A q \in Channels : q # o => drive'[q] = drive[q]
    BY <1>4, <1>8, <1>9
  <1>11. /\ outcome' \in [Channels -> Byte] /\ outcome'[o] = s
         /\ \A q \in Channels : q # o => outcome'[q] = outcome[q]
    BY <1>1, <1>2, <1>5 DEF Typed
  <1>12. Moves(o)
    BY <1>3, <1>6, <1>9, <1>10, <1>11 DEF Moves, FilesKept, HobsKept
  <1>13. State'
    BY <1>12, MovesKeeps
  <1>14. Typed' /\ Wired'
    BY <1>1, <1>3, <1>10, <1>11 DEF Typed, Wired
  <1>15. ASSUME NEW q \in Channels
         PROVE  /\ Works(drive'[q], outcome'[q])
                /\ q \notin present' => drive'[q].unsettled = 0 /\ drive'[q].status = {ATA_SR_DRDY}
    <2>1. CASE q = o
      <3>1. Works(e, s)
        BY <1>6, <1>9 DEF Works
      <3> QED
        BY <1>3, <1>7, <1>10, <1>11, <2>1, <3>1
    <2>2. CASE q # o
      BY <1>1, <1>3, <1>10, <1>11, <2>2 DEF Working
    <2> QED
      BY <2>1, <2>2
  <1>16. Working'
    BY <1>15 DEF Working
  <1> QED
    BY <1>13, <1>14, <1>16 DEF IInv

-----------------------------------------------------------------------------
(* The invariant holds from the start on.                                  *)

LEMMA OneAndOne ==
  ASSUME NEW a \in Accesses, NEW b \in Accesses
  PROVE  /\ <<a>> \o <<b>> \in Seq(Accesses) /\ Len(<<a>> \o <<b>>) = 2
         /\ (<<a>> \o <<b>>)[1] = a /\ (<<a>> \o <<b>>)[2] = b
  <1> DEFINE t == <<a>>
             u == <<b>>
             s == t \o u
  <1>1. /\ t \in Seq(Accesses) /\ Len(t) = 1 /\ t[1] = a
        /\ u \in Seq(Accesses) /\ Len(u) = 1 /\ u[1] = b
    OBVIOUS
  <1> HIDE DEF t, u
  <1>2. /\ s \in Seq(Accesses) /\ Len(s) = Len(t) + Len(u)
        /\ \A i \in 1 .. Len(t) + Len(u) : s[i] = IF i <= Len(t) THEN t[i] ELSE u[i - Len(t)]
    BY <1>1, ConcatProperties, Zenon
  <1> HIDE DEF s
  <1>3. s \in Seq(Accesses) /\ Len(s) = 2 /\ s[1] = a /\ s[2] = b
    BY <1>1, <1>2
  <1> QED
    BY <1>3 DEF s, t, u

LEMMA InitInv == ASSUME Init PROVE IInv
  <1>1. PICK bar \in BARs :
          \E b0 \in Bases(bar[1], 496), c0 \in Bases(bar[2], 1012),
             b1 \in Bases(bar[3], 368), c1 \in Bases(bar[4], 884) :
            channels = [c \in Channels |->
              [base |-> IF c = 0 THEN b0 ELSE b1, ctrl |-> IF c = 0 THEN c0 ELSE c1,
               bmide |-> Masked(bar[5]) + 8 * c]]
    BY DEF Init
  <1>2. channels = [c \in Channels |->
              [base |-> IF c = 0 THEN 496 ELSE 368, ctrl |-> IF c = 0 THEN 1012 ELSE 884,
               bmide |-> Masked(bar[5]) + 8 * c]]
    <2>1. /\ Bases(bar[1], 496) = {496} /\ Bases(bar[2], 1012) = {1012}
          /\ Bases(bar[3], 368) = {368} /\ Bases(bar[4], 884) = {884}
      <3>1. AtStandardPorts(bar)
        BY PortsAssumption, Zenon
      <3> QED
        BY <3>1 DEF AtStandardPorts
    <2>2. PICK b0 \in {496}, c0 \in {1012}, b1 \in {368}, c1 \in {884} :
            channels = [c \in Channels |->
              [base |-> IF c = 0 THEN b0 ELSE b1, ctrl |-> IF c = 0 THEN c0 ELSE c1,
               bmide |-> Masked(bar[5]) + 8 * c]]
      BY <1>1, <2>1
    <2>3. b0 = 496 /\ c0 = 1012 /\ b1 = 368 /\ c1 = 884
      OBVIOUS
    <2> QED
      BY <2>2, <2>3
  <1>3. Wired
    BY <1>2 DEF Wired
  <1>4. /\ present \in Drives
        /\ drive = [c \in Channels |->
             [file |-> [r \in 2 .. 5 |-> <<{}, {}>>], hob |-> FALSE,
              status |-> {ATA_SR_DRDY}, error |-> {}, unsettled |-> 0]]
        /\ todo = ide_write(0, 12, {1}) \o ide_write(1, 12, {1})
        /\ call.name = "initialize" /\ at = "idle" /\ in = {} /\ answer = 0
        /\ outcome = [c \in Channels |-> {ATA_SR_DRDY}]
        /\ expect = [c \in Channels |-> [r \in Pairs |-> <<>>]]
    BY DEF Init, ATA_PRIMARY, ATA_SECONDARY, ATA_REG_CONTROL
  <1>5. {ATA_SR_DRDY} \in Byte /\ {} \in Byte /\ {1} \in Byte /\ FALSE \in BOOLEAN /\ 0 \in 0 .. 4
    BY StatusFacts DEF Byte
  <1> DEFINE f == [r \in 2 .. 5 |-> <<{}, {}>>]
             d == [file |-> f, hob |-> FALSE, status |-> {ATA_SR_DRDY}, error |-> {},
                   unsettled |-> 0]
  <1>6. f \in Files
    BY <1>5 DEF Files, Two
  <1> HIDE DEF f
  <1>7. /\ d \in Drive /\ ~d.hob /\ d.status = {ATA_SR_DRDY} /\ d.unsettled = 0
    BY <1>5, <1>6, Built
  <1>8. drive = [c \in Channels |-> d]
    BY <1>4 DEF f
  <1> HIDE DEF d
  <1>9. present \in SUBSET Channels
    BY <1>4, IdeAssumption, ChannelFacts
  <1>10. /\ todo \in Seq(Accesses) /\ Len(todo) = 2
         /\ Is(todo[1], "out", 0, 12, {1}) /\ Is(todo[2], "out", 1, 12, {1})
    <2>1. 12 \in 0 .. 12 /\ Behind(12) = 12 /\ ~Hob(12)
      BY DEF Behind, Hob
    <2> DEFINE a == Out(0, 12, {1})
               b == Out(1, 12, {1})
    <2>2. a \in Accesses /\ Is(a, "out", 0, 12, {1})
      BY <1>3, <1>5, <2>1, ChannelFacts, OutIs
    <2>3. b \in Accesses /\ Is(b, "out", 1, 12, {1})
      BY <1>3, <1>5, <2>1, ChannelFacts, OutIs
    <2>4. ide_write(0, 12, {1}) = <<a>> /\ ide_write(1, 12, {1}) = <<b>>
      BY <2>1 DEF ide_write, Around
    <2> HIDE DEF a, b
    <2>5. todo = <<a>> \o <<b>>
      BY <1>4, <2>4
    <2>6. todo \in Seq(Accesses) /\ Len(todo) = 2 /\ todo[1] = a /\ todo[2] = b
      <3>1. /\ <<a>> \o <<b>> \in Seq(Accesses) /\ Len(<<a>> \o <<b>>) = 2
            /\ (<<a>> \o <<b>>)[1] = a /\ (<<a>> \o <<b>>)[2] = b
        BY <2>2, <2>3, OneAndOne, Zenon
      <3> QED
        BY <2>5, <3>1, Zenon
    <2> QED
      BY <2>2, <2>3, <2>6
  <1>11. Typed
    <2>1. outcome \in [Channels -> Byte] /\ in \in Byte
      BY <1>4, <1>5
    <2>2. expect \in [Channels -> [Pairs -> Seq(Byte)]]
      BY <1>4
    <2>3. drive \in [Channels -> Drive]
      BY <1>7, <1>8
    <2> QED
      BY <1>4, <1>9, <1>10, <2>1, <2>2, <2>3 DEF Typed
  <1>12. Working
    <2>1. Works(d, {ATA_SR_DRDY})
      BY <1>7, StatusFacts DEF Works
    <2>2. \A c \in Channels : drive[c] = d /\ outcome[c] = {ATA_SR_DRDY}
      BY <1>4, <1>8
    <2> QED
      BY <1>7, <2>1, <2>2 DEF Working
  <1>13. Quiet
    BY <1>7, <1>8 DEF Quiet
  <1>14. Agree
    BY <1>4 DEF Agree, FileAgrees
  <1>15. Initializing
    BY <1>4, <1>10, <1>13, <1>14 DEF Initializing
  <1> QED
    BY <1>3, <1>11, <1>12, <1>15 DEF IInv, State

LEMMA StutterInv ==
  ASSUME IInv, UNCHANGED vars PROVE IInv'
  <1>1. UNCHANGED <<channels, present, drive, todo, call, at, in, answer, outcome, expect>>
    BY DEF vars
  <1>2. Typed' /\ Wired' /\ Working'
    BY <1>1 DEF IInv, Typed, Wired, Working
  <1>3. /\ Initializing => Initializing'
        /\ Commanding => Commanding'
        /\ Buffering => Buffering'
        /\ Reporting => Reporting'
    BY <1>1 DEF Initializing, Commanding, Buffering, Reporting, Settled, Quiet, Agree
  <1>4. Polling => Polling'
    BY <1>1 DEF Polling, PollAhead, CheckAhead, Polled, Settled, Quiet, Agree
  <1>5. ASSUME Writing PROVE Writing'
    <2>1. PICK r \in Pairs, v \in Byte : WriteAhead(call.c, r, v)
      BY <1>5 DEF Writing
    <2>2. WriteAhead(call.c, r, v)'
      BY <1>1, <2>1 DEF WriteAhead, Quiet, QuietBut, Agree, AgreeAfter, HobOn, HobOff
    <2> QED
      BY <1>1, <1>5, <2>2 DEF Writing
  <1>6. ASSUME Reading PROVE Reading'
    <2>1. PICK r \in Pairs : ReadAhead(call.c, call.x, r)
      BY <1>6 DEF Reading
    <2>2. ReadAhead(call.c, call.x, r)'
      BY <1>1, <2>1 DEF ReadAhead, Quiet, QuietBut, HobOn, HobOff
    <2> QED
      BY <1>1, <1>6, <2>2 DEF Reading, Agree
  <1> QED
    BY <1>2, <1>3, <1>4, <1>5, <1>6 DEF IInv, State

LEMMA Inductive == ASSUME IInv, [Next]_vars PROVE IInv'
  <1>1. CASE Driver
    BY <1>1, AccessInv, PollLoopInv, PollCheckInv, PrintErrorInv DEF Driver
  <1>2. CASE Caller
    <2>1. ASSUME NEW c \in present, NEW reg \in Pairs \cup {r + 6 : r \in Pairs},
                 CallRead(c, reg) \/ \E v \in Values : CallWrite(c, reg, v)
          PROVE  IInv'
      <3>1. reg \in Numbers
        BY DEF Numbers
      <3> QED
        BY <2>1, <3>1, ReadInv, WriteInv
    <2>2. ASSUME NEW c \in Channels,
                 CallCommand(c) \/ CallPolling(c, 0) \/ CallPolling(c, 1) \/ CallReadBuffer(c)
          PROVE  IInv'
      BY <2>2, CommandInv, PollingInv, BufferInv
    <2> QED
      BY <1>2, <2>1, <2>2, ReportInv DEF Caller
  <1>3. ASSUME NEW c \in Channels, DriveStarts(c) \/ DriveDone(c) PROVE IInv'
    BY <1>3, DriveStartsInv, DriveDoneInv
  <1>4. CASE UNCHANGED vars
    BY <1>4, StutterInv
  <1> QED
    BY <1>1, <1>2, <1>3, <1>4 DEF Next

THEOREM Invariance == Spec => []IInv
  <1>1. Init => IInv
    BY InitInv
  <1>2. IInv /\ [Next]_vars => IInv'
    BY Inductive
  <1> QED
    BY <1>1, <1>2, PTL DEF Spec

-----------------------------------------------------------------------------
(* What follows for every reader of the driver.                            *)

LEMMA Near ==
  ASSUME NEW a, NEW do, NEW c, NEW r, NEW v, Is(a, do, c, r, v)
  PROVE  \E w \in Where(a.port) : w[1] = c
  <1>1. <<c, r>> \in Where(a.port) /\ <<c, r>>[1] = c
    BY DEF Is, Reaches
  <1> QED
    BY <1>1

LEMMA UpToThree ==
  ASSUME NEW n \in Nat, NEW i \in 1 .. n
  PROVE  /\ n # 0 /\ (n = 1 => i = 1)
         /\ n = 2 => i = 1 \/ i = 2
         /\ n = 3 => i = 1 \/ i = 2 \/ i = 3
  OBVIOUS

(* Every access of a call goes to a drive, and to the one the call is about *)
(* (or is that of ide_initialize or ide_print_error).                      *)
LEMMA Aimed ==
  ASSUME IInv, NEW i \in 1 .. Len(todo)
  PROVE  \E w \in Where(todo[i].port) :
           call.name \notin {"initialize", "print_error"} => w[1] = call.c
  <1> DEFINE c == call.c
             n == Len(todo)
  <1>1. n \in Nat /\ State
    BY DEF IInv, Typed
  <1>2. /\ todo # <<>> /\ (n = 1 => i = 1)
        /\ n = 2 => i = 1 \/ i = 2
        /\ n = 3 => i = 1 \/ i = 2 \/ i = 3
    <2>1. i \in 1 .. n
      OBVIOUS
    <2>2. todo = <<>> => n = 0
      OBVIOUS
    <2> HIDE DEF n
    <2> QED
      BY <1>1, <2>1, <2>2, UpToThree
  <1>3. \E o, do, r, v : /\ Is(todo[i], do, o, r, v)
                         /\ call.name \notin {"initialize", "print_error"} => o = c
    <2> HIDE DEF c
    <2>1. CASE Initializing
      <3>1. n = 1 \/ n = 2
        BY <1>2, <2>1 DEF Initializing
      <3>2. \E o, do, r, v : Is(todo[i], do, o, r, v)
        BY <1>2, <2>1, <3>1 DEF Initializing
      <3> QED
        BY <2>1, <3>2 DEF Initializing
    <2>2. CASE Writing
      <3>1. PICK r \in Pairs, v \in Byte : WriteAhead(c, r, v)
        BY <2>2 DEF Writing, c
      <3>2. Is(todo[i], "out", c, r, v) \/ HobOn(todo[i], c) \/ HobOff(todo[i], c)
        BY <1>2, <3>1 DEF WriteAhead
      <3> QED
        BY <3>2 DEF HobOn, HobOff
    <2>3. CASE Reading
      <3>1. PICK r \in Pairs : ReadAhead(c, call.x, r)
        BY <2>3 DEF Reading, c
      <3>2. Is(todo[i], "in", c, r, {}) \/ HobOn(todo[i], c) \/ HobOff(todo[i], c)
        BY <1>2, <3>1 DEF ReadAhead
      <3> QED
        BY <3>2 DEF HobOn, HobOff
    <2>4. CASE Commanding
      <3>1. i = 1 /\ Is(todo[i], "out", c, 7, {})
        BY <1>2, <2>4 DEF Commanding, c
      <3> QED
        BY <3>1
    <2>5. CASE Buffering
      <3>1. i = 1 /\ Is(todo[i], "in", c, 0, {})
        BY <1>2, <2>5 DEF Buffering, c
      <3> QED
        BY <3>1
    <2>6. CASE Reporting
      <3>1. i = 1 /\ Is(todo[i], "in", 0, 1, {})
        BY <1>2, <2>6 DEF Reporting
      <3> QED
        BY <2>6, <3>1 DEF Reporting
    <2>7. CASE Polling
      <3>1. CASE PollAhead(c)
        <4>1. Is(todo[i], "in", c, IF i = Len(todo) THEN 7 ELSE 12, {})
          BY <3>1 DEF PollAhead
        <4> QED
          BY <4>1
      <3>2. CASE CheckAhead(c)
        <4>1. i = 1 /\ Is(todo[i], "in", c, 7, {})
          BY <1>2, <3>2 DEF CheckAhead
        <4> QED
          BY <4>1
      <3> QED
        BY <1>2, <2>7, <3>1, <3>2 DEF Polling, Polled, c
    <2> QED
      BY <1>1, <2>1, <2>2, <2>3, <2>4, <2>5, <2>6, <2>7 DEF State
  <1> QED
    BY <1>3, Near

(* The types, and every port belongs to the drive the call is about,       *)
(* whichever registers callers use.                                        *)
THEOREM TypeCorrect == Spec => []TypeOK
  <1>1. IInv => TypeOK
    <2> SUFFICES ASSUME IInv PROVE TypeOK
      OBVIOUS
    <2>1. Typed /\ State
      BY DEF IInv
    <2>2. present \subseteq Channels /\ answer \in {0, 1, 2, 3, 7, 13, 19, 20, 21, 22, 23}
      BY <2>1 DEF Typed
    <2>3. at \in {"idle", "wait", "check", "error"}
      BY <2>1 DEF State, Initializing, Writing, Reading, Commanding, Polling, Buffering, Reporting
    <2>4. ASSUME NEW c \in Channels
          PROVE  /\ drive[c].status \subseteq Floating /\ drive[c].unsettled \in 0 .. 4
                 /\ \A r \in 2 .. 5 :
                      drive[c].file[r] \in (SUBSET (0 .. 7)) \X (SUBSET (0 .. 7))
      <3>1. drive[c] \in Drive
        BY <2>1 DEF Typed
      <3>2. /\ drive[c].status \in Byte /\ drive[c].unsettled \in 0 .. 4
            /\ drive[c].file \in Files
        BY <3>1 DEF Drive
      <3> QED
        BY <3>2 DEF Byte, Floating, Files, Two
    <2> QED
      BY <2>2, <2>3, <2>4, Aimed DEF TypeOK
  <1> QED
    BY <1>1, Invariance, PTL

(* HOB never stays on behind a call, and a register that was given both    *)
(* bytes holds them and reads back as them, whatever the drive does        *)
(* meanwhile.                                                              *)
THEOREM TaskFile == Spec => []TaskFileExact
  <1>1. IInv => TaskFileExact
    <2> SUFFICES ASSUME IInv, at = "idle", todo = <<>>, NEW c \in present
                 PROVE  /\ ~drive[c].hob
                        /\ \A r \in Pairs : Len(expect[c][r]) = 2 =>
                             /\ drive[c].file[r] = expect[c][r]
                             /\ call = [name |-> "read", c |-> c, x |-> r] =>
                                  in = expect[c][r][1]
                             /\ call = [name |-> "read", c |-> c, x |-> r + 6] =>
                                  in = expect[c][r][2]
      BY DEF TaskFileExact
    <2>1. Typed /\ State /\ c \in Channels
      BY DEF IInv, Typed
    <2>2. Quiet /\ Agree
      BY <2>1, AtRest
    <2>3. ASSUME NEW r \in Pairs, Len(expect[c][r]) = 2
          PROVE  /\ drive[c].file[r] = expect[c][r]
                 /\ call = [name |-> "read", c |-> c, x |-> r] => in = expect[c][r][1]
                 /\ call = [name |-> "read", c |-> c, x |-> r + 6] => in = expect[c][r][2]
      <3> DEFINE e == expect[c][r]
                 f == drive[c].file[r]
      <3>1. r \in 2 .. 5
        BY IdeAssumption
      <3>2. e \in Seq(Byte) /\ f \in Two /\ FileAgrees(e, f)
        <4>1. drive[c].file \in Files
          BY <2>1 DEF Typed, Drive
        <4> QED
          BY <2>1, <2>2, <3>1, <4>1 DEF Typed, Files, Agree
      <3>3. f[1] = e[1] /\ f[2] = e[2]
        BY <2>3, <3>2 DEF FileAgrees
      <3>4. f = e
        <4> HIDE DEF e, f
        <4>1. Len(e) = 2
          BY <2>3 DEF e
        <4>2. f = <<f[1], f[2]>>
          BY <3>2 DEF Two
        <4>3. e = <<e[1], e[2]>>
          BY <3>2, <4>1
        <4> QED
          BY <3>3, <4>2, <4>3
      <3>5. ASSUME call.name = "read", call.c = c, call.x = r \/ call.x = r + 6
            PROVE  in = f[IF call.x = r THEN 1 ELSE 2]
        <4>1. Reading
          BY <2>1, <3>5 DEF State, Initializing, Writing, Commanding, Polling, Buffering,
                            Reporting
        <4>2. PICK q \in Pairs : ReadAhead(c, call.x, q)
          BY <3>5, <4>1 DEF Reading
        <4>3. call.x \in {q, q + 6} /\ in = drive[c].file[q][IF call.x = q THEN 1 ELSE 2]
          BY <4>2 DEF ReadAhead
        <4>4. q \in 2 .. 5
          BY IdeAssumption
        <4>5. q = r
          BY <3>1, <3>5, <4>3, <4>4
        <4> QED
          BY <4>3, <4>5
      <3>6. r + 6 # r
        BY <3>1
      <3>7. ASSUME call = [name |-> "read", c |-> c, x |-> r] PROVE in = f[1]
        BY <3>5, <3>7
      <3>8. ASSUME call = [name |-> "read", c |-> c, x |-> r + 6] PROVE in = f[2]
        BY <3>5, <3>6, <3>8
      <3> QED
        BY <3>3, <3>4, <3>7, <3>8
    <2> QED
      BY <2>1, <2>2, <2>3 DEF Quiet
  <1> QED
    BY <1>1, Invariance, PTL

(* What ide_polling and ide_print_error answer is the end of the command   *)
(* the drive was given last, however slowly the drive shows BSY.           *)
THEOREM AnswersFresh == Spec => []AnswerFresh
  <1>1. IInv => AnswerFresh
    <2> SUFFICES ASSUME IInv, at = "idle", todo = <<>>, call.c \in present,
                        NEW s, s = outcome[call.c]
                 PROVE  /\ call.name = "polling" => ATA_SR_BSY \notin s
                        /\ call.name = "polling" /\ call.x # 0 =>
                             (answer = 0 <=> ATA_SR_DRQ \in s) /\ (answer = 2 <=> ATA_SR_ERR \in s)
                        /\ call.name = "print_error" /\ call.c = ATA_PRIMARY =>
                             /\ answer = 19 <=> s = {ATA_SR_DRDY, ATA_SR_DF}
                             /\ answer = 23 <=> s = {ATA_SR_DRDY}
      BY DEF AnswerFresh
    <2>1. Typed /\ Working /\ State /\ call.c \in Channels
      BY DEF IInv, Typed
    <2>2. ASSUME Settled(call.c) PROVE s \in Statuses /\ s = drive[call.c].status
      BY <2>1, <2>2 DEF Working, Works, Settled
    <2>3. ASSUME call.name = "polling" PROVE Polled(call.c, call.x) /\ call.x \in {0, 1}
      BY <2>1, <2>3 DEF State, Initializing, Writing, Reading, Commanding, Polling, Buffering,
                        Reporting
    <2>4. ASSUME call.name = "polling" PROVE ATA_SR_BSY \notin s
      BY <2>2, <2>3, <2>4, StatusFacts DEF Polled
    <2>5. ASSUME call.name = "polling", call.x # 0
          PROVE  (answer = 0 <=> ATA_SR_DRQ \in s) /\ (answer = 2 <=> ATA_SR_ERR \in s)
      <3>1. answer = Checked(s) /\ s \in Statuses
        BY <2>2, <2>3, <2>5 DEF Polled
      <3> QED
        BY <3>1, CheckedFacts
    <2>6. ASSUME call.name = "print_error"
          PROVE  /\ answer = 19 <=> s = {ATA_SR_DRDY, ATA_SR_DF}
                 /\ answer = 23 <=> s = {ATA_SR_DRDY}
      <3>1. Reporting
        BY <2>1, <2>6 DEF State, Initializing, Writing, Reading, Commanding, Polling, Buffering
      <3> QED
        BY <2>2, <3>1 DEF Reporting
    <2> QED
      BY <2>4, <2>5, <2>6
  <1> QED
    BY <1>1, Invariance, PTL

=============================================================================
