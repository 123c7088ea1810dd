-------------------------------- MODULE Ide --------------------------------
(***************************************************************************)
(* The IDE driver of drivers/ide.c: how a register number becomes a port   *)
(* and the HOB bit is set around the upper half of the task file, and how  *)
(* ide_polling waits for a command that the drive works on meanwhile.  Each *)
(* access to a port is a step.  The drive and the code that calls the      *)
(* driver are external: no code of the repository does.  A byte is the set *)
(* of its bits.                                                            *)
(***************************************************************************)
EXTENDS Integers, Sequences, SequencesExt

CONSTANTS
  BARs,      (* the arguments of ide_initialize, sequences of five           *)
  Drives,    (* the sets of channels that may have a drive                   *)
  Pairs,     (* the registers with two bytes behind them that callers use    *)
  Values,    (* the bytes they write there                                   *)
  Errors     (* the contents of the error register after a failed command    *)

(* (BAR &= 0xFFFFFFFC) + standard * (!BAR): whether !BAR sees the old or    *)
(* the new value is not defined.                                           *)
Masked(bar) == bar - (bar % 4)
Bases(bar, standard) ==
  {Masked(bar) + IF seen = 0 THEN standard ELSE 0 : seen \in {bar, Masked(bar)}}

(* The drives are at the standard ports, and the BARs say so or are 0.     *)
AtStandardPorts(bar) ==
  /\ Bases(bar[1], 496) = {496} /\ Bases(bar[2], 1012) = {1012}
  /\ Bases(bar[3], 368) = {368} /\ Bases(bar[4], 884) = {884}

ASSUME BarsAssumption == BARs \subseteq [1 .. 5 -> 0 .. 65535]
ASSUME PortsAssumption == \A bar \in BARs : AtStandardPorts(bar)

ASSUME IdeAssumption ==
  /\ Drives \subseteq SUBSET {0, 1}
  /\ Pairs \subseteq 2 .. 5
  /\ Values \subseteq SUBSET (0 .. 7)
  /\ Errors \subseteq SUBSET (0 .. 7)

ATA_PRIMARY == 0
ATA_SECONDARY == 1
Channels == {ATA_PRIMARY, ATA_SECONDARY}

ATA_REG_DATA == 0
ATA_REG_ERROR == 1
ATA_REG_STATUS == 7
ATA_REG_COMMAND == 7
ATA_REG_CONTROL == 12
ATA_REG_ALTSTATUS == 12

(* Bits of the status.                                                     *)
ATA_SR_BSY == 7
ATA_SR_DRDY == 6
ATA_SR_DF == 5
ATA_SR_DRQ == 3
ATA_SR_ERR == 0

VARIABLES
  channels,  (* channels[], without nIEN, which stays 0                      *)
  present,   (* the channels that have a drive                               *)
  drive,     (* each drive's registers, and how long until BSY must be set   *)
  todo,      (* the port accesses the call in progress still makes           *)
  call,      (* the call in progress or the last one                         *)
  at,        (* where it is behind those accesses                            *)
  in,        (* what the last access of the call read                        *)
  answer,    (* what ide_polling or ide_print_error returned last            *)
  outcome,   (* history: the status the last command of a channel ended with *)
  expect     (* history: what each register pair was last given              *)

vars == <<channels, present, drive, todo, call, at, in, answer, outcome, expect>>

-----------------------------------------------------------------------------
(* Registers and ports.                                                    *)

nIEN == {}
Hob(reg) == reg \in 8 .. 11

Port_NoOffset(c, reg) ==
  CASE reg \in 0 .. 11  -> channels[c].base + reg
    [] reg \in 12 .. 13 -> channels[c].ctrl + reg - 10
    [] reg \in 14 .. 21 -> channels[c].bmide + reg - 14

Port(c, reg) ==
  CASE reg \in 0 .. 7   -> channels[c].base + reg
    [] Hob(reg)         -> channels[c].base + reg - 6
    [] reg \in 12 .. 13 -> channels[c].ctrl + reg - 10
    [] reg \in 14 .. 21 -> channels[c].bmide + reg - 14

Out(c, reg, v) == [do |-> "out", port |-> Port(c, reg), v |-> v]
In(c, reg) == [do |-> "in", port |-> Port(c, reg), v |-> {}]

(* ide_write calls itself for the control register, before and after.      *)
Around_Left(c, reg, access) ==
  IF Hob(reg) THEN <<Out(c, ATA_REG_CONTROL, {7} \cup nIEN), access>> ELSE <<access>>

Around(c, reg, access) ==
  IF Hob(reg)
  THEN <<Out(c, ATA_REG_CONTROL, {7} \cup nIEN), access, Out(c, ATA_REG_CONTROL, nIEN)>>
  ELSE <<access>>

ide_write(c, reg, v) == Around(c, reg, Out(c, reg, v))
ide_read(c, reg) == Around(c, reg, In(c, reg))

(* Four reads of the alternate status, "Delay 400ns for BSY to be set".    *)
Delay_ThreeReads(c) == [i \in 1 .. 3 |-> In(c, ATA_REG_ALTSTATUS)]
Delay(c) == [i \in 1 .. 4 |-> In(c, ATA_REG_ALTSTATUS)]

-----------------------------------------------------------------------------
(* The drives, as far as the driver uses them: registers 2 to 5 hold two   *)
(* bytes, the older one read under HOB, which a write to the task file     *)
(* clears; BSY may take 400 ns to appear, and each access lasts 100.       *)

Where(p) ==
  {w \in Channels \X (0 .. 7) : p = w[2] + IF w[1] = 0 THEN 496 ELSE 368} \cup
  {w \in Channels \X {ATA_REG_CONTROL} : p = IF w[1] = 0 THEN 1014 ELSE 886}

Floating == 0 .. 7

Read(c, r) ==
  IF c \notin present THEN Floating
  ELSE CASE r \in 2 .. 5      -> drive[c].file[r][IF drive[c].hob THEN 2 ELSE 1]
         [] r = ATA_REG_ERROR -> drive[c].error
         [] OTHER             -> drive[c].status

(* 100 ns go by.                                                           *)
Later(d) ==
  IF d.unsettled = 1 THEN [d EXCEPT !.unsettled = 0, !.status = {ATA_SR_BSY}]
  ELSE [d EXCEPT !.unsettled = IF @ = 0 THEN 0 ELSE @ - 1]

(* Register r is written, or the buffer behind register 0 read.            *)
Accessed(d, r, do, v) ==
  CASE do = "out" /\ r \in 2 .. 5           -> [d EXCEPT !.file[r] = <<v, @[1]>>, !.hob = FALSE]
    [] do = "out" /\ r = ATA_REG_COMMAND -> [d EXCEPT !.unsettled = 4, !.hob = FALSE]
    [] do = "out" /\ r = ATA_REG_CONTROL -> [d EXCEPT !.hob = 7 \in v]
    [] do = "in" /\ r = ATA_REG_DATA     -> [d EXCEPT !.status = {ATA_SR_DRDY}]
    [] OTHER                             -> d

DriveStarts(c) ==
  /\ drive[c].unsettled > 0
  /\ drive' = [drive EXCEPT ![c].unsettled = 0, ![c].status = {ATA_SR_BSY}]
  /\ UNCHANGED <<channels, present, todo, call, at, in, answer, outcome, expect>>

Statuses ==
  {{ATA_SR_DRDY} \cup s : s \in {{}, {ATA_SR_DRQ}, {ATA_SR_ERR}, {ATA_SR_DF},
                                  {ATA_SR_DF, ATA_SR_ERR}}}

DriveDone(c) ==
  /\ drive[c].status = {ATA_SR_BSY}
  /\ \E s \in Statuses, e \in Errors \cup {{}} :
       /\ e # {} => ATA_SR_ERR \in s
       /\ drive' = [drive EXCEPT ![c].status = s, ![c].error = e]
       /\ outcome' = [outcome EXCEPT ![c] = s]
  /\ UNCHANGED <<channels, present, todo, call, at, in, answer, expect>>

-----------------------------------------------------------------------------
(* ide_initialize, with its two writes to come.                            *)
Init ==
  /\ \E bar \in BARs : \E b0 \in Bases(bar[1], 496), c0 \in Bases(bar[2], 1012),
                          b1 \in Bases(bar[3], 368), c1 \in Bases(bar[4], 884) :
       channels = [c \in Channels |->
         [base |-> IF c = 0 THEN b0 ELSE b1, ctrl |-> IF c = 0 THEN c0 ELSE c1,
          bmide |-> Masked(bar[5]) + 8 * c]]
  /\ present \in Drives
  /\ drive = [c \in Channels |->
       [file |-> [r \in 2 .. 5 |-> <<{}, {}>>], hob |-> FALSE,
        status |-> {ATA_SR_DRDY}, error |-> {}, unsettled |-> 0]]
  /\ todo = ide_write(ATA_PRIMARY, ATA_REG_CONTROL, {1}) \o
            ide_write(ATA_SECONDARY, ATA_REG_CONTROL, {1})
  /\ call = [name |-> "initialize", c |-> 0, x |-> 0]
  /\ at = "idle" /\ in = {} /\ answer = 0
  /\ outcome = [c \in Channels |-> {ATA_SR_DRDY}]
  /\ expect = [c \in Channels |-> [r \in Pairs |-> <<>>]]

Access ==
  /\ todo # <<>>
  /\ LET a == Head(todo) IN
     /\ in' = IF a.do = "out" THEN in
              ELSE IF Where(a.port) = {} THEN Floating
              ELSE LET w == CHOOSE w \in Where(a.port) : TRUE IN Read(w[1], w[2])
     /\ drive' = [c \in Channels |->
          IF c \in present /\ \E r \in 0 .. 12 : <<c, r>> \in Where(a.port)
          THEN Accessed(Later(drive[c]),
                        CHOOSE r \in 0 .. 12 : <<c, r>> \in Where(a.port), a.do, a.v)
          ELSE Later(drive[c])]
     /\ outcome' = [c \in Channels |->
          IF drive'[c].unsettled = 4 THEN {ATA_SR_BSY}
          ELSE IF a.do = "in" /\ <<c, ATA_REG_DATA>> \in Where(a.port) THEN {ATA_SR_DRDY}
          ELSE outcome[c]]
  /\ todo' = Tail(todo)
  /\ UNCHANGED <<channels, present, call, at, answer, expect>>

(* Somebody calls a function of the driver.                                *)
Call(name, c, x, accesses) ==
  /\ at = "idle" /\ todo = <<>>
  /\ call' = [name |-> name, c |-> c, x |-> x]
  /\ todo' = accesses /\ in' = {}
  /\ UNCHANGED <<channels, present, drive, outcome>>

(* Callers leave the task file alone while a command runs.                 *)
CallWrite(c, reg, v) ==
  /\ outcome[c] # {ATA_SR_BSY}
  /\ Call("write", c, reg, ide_write(c, reg, v))
  /\ expect' = [expect EXCEPT ![c] =
       [r \in Pairs |-> IF reg = r + 6 THEN <<v>>
                        ELSE IF reg # r THEN @[r]
                        ELSE IF Len(@[r]) = 1 THEN <<v>> \o @[r] ELSE <<>>]]
  /\ UNCHANGED <<at, answer>>

CallRead(c, reg) ==
  /\ outcome[c] # {ATA_SR_BSY}
  /\ Call("read", c, reg, ide_read(c, reg))
  /\ UNCHANGED <<at, answer, expect>>

CallCommand(c) ==
  /\ outcome[c] # {ATA_SR_BSY}
  /\ Call("command", c, ATA_REG_COMMAND, ide_write(c, ATA_REG_COMMAND, {}))
  /\ UNCHANGED <<at, answer, expect>>

CallPolling(c, advanced_check) ==
  /\ Call("polling", c, advanced_check, Delay(c) \o ide_read(c, ATA_REG_STATUS))
  /\ at' = "wait"
  /\ UNCHANGED <<answer, expect>>

(* while (ide_read(channel, ATA_REG_STATUS) & ATA_SR_BSY);                 *)
Waits_ForData(status) == ATA_SR_DRQ \notin status
Waits(status) == ATA_SR_BSY \in status

PollLoop ==
  /\ at = "wait" /\ todo = <<>>
  /\ IF Waits(in) \/ call.x # 0
     THEN todo' = ide_read(call.c, ATA_REG_STATUS) /\ UNCHANGED answer
     ELSE answer' = 0 /\ UNCHANGED todo
  /\ at' = IF Waits(in) THEN "wait" ELSE IF call.x # 0 THEN "check" ELSE "idle"
  /\ UNCHANGED <<channels, present, drive, call, in, outcome, expect>>

Checked(state) ==
  CASE ATA_SR_ERR \in state    -> 2
    [] ATA_SR_ERR \notin state /\ ATA_SR_DF \in state -> 1
    [] {ATA_SR_ERR, ATA_SR_DF, ATA_SR_DRQ} \cap state = {} -> 3
    [] OTHER              -> 0

Returns(value) ==
  /\ todo = <<>>
  /\ at' = "idle"
  /\ answer' = value
  /\ UNCHANGED <<channels, present, drive, todo, call, in, outcome, expect>>

PollCheck == at = "check" /\ Returns(Checked(in))

(* insl, once ide_polling has found data.                                  *)
CallReadBuffer(c) ==
  /\ call = [name |-> "polling", c |-> c, x |-> 1] /\ answer = 0
  /\ Call("buffer", c, ATA_REG_DATA, <<In(c, ATA_REG_DATA)>>)
  /\ UNCHANGED <<at, answer, expect>>

(* ide_print_error(drive, err): nobody fills ide_devices, so that the      *)
(* channel is 0 for every drive.                                           *)
CallPrintError ==
  /\ call.name = "polling" /\ answer # 0
  /\ Call("print_error", call.c, answer,
          IF answer = 2 THEN ide_read(ATA_PRIMARY, ATA_REG_ERROR) ELSE <<>>)
  /\ at' = "error"
  /\ UNCHANGED <<answer, expect>>

(* What err becomes with each bit of the error register: the code tests    *)
(* them from the lowest on, and the last one that applies stays.           *)
Named == [bit \in 0 .. 7 |-> <<7, 3, 20, 3, 21, 3, 22, 13>>[bit + 1]]
PrintError ==
  at = "error" /\ Returns(
    CASE call.x = 1 -> 19
      [] call.x = 3 -> 23
      [] call.x = 2 -> IF in = {} THEN 2 ELSE Named[Max(in)])

Driver == Access \/ PollLoop \/ PollCheck \/ PrintError
Caller ==
  \/ \E c \in present, reg \in Pairs \cup {r + 6 : r \in Pairs} :
       CallRead(c, reg) \/ \E v \in Values : CallWrite(c, reg, v)
  \/ \E c \in Channels :
       CallCommand(c) \/ CallPolling(c, 0) \/ CallPolling(c, 1) \/ CallReadBuffer(c)
  \/ CallPrintError

Next ==
  \/ Driver
  \/ Caller
  \/ \E c \in Channels : DriveStarts(c) \/ DriveDone(c)

Spec == Init /\ [][Next]_vars

(* The driver runs on, and a drive ends each command it has taken.         *)
Fairness ==
  WF_vars(Driver) /\ \A c \in Channels : WF_vars(DriveStarts(c)) /\ WF_vars(DriveDone(c))
FairSpec == Spec /\ Fairness

-----------------------------------------------------------------------------
(* Types; every port the driver touches in a call belongs to the channel   *)
(* the call is about, but for the error register of ide_print_error.       *)
TypeOK ==
  /\ present \subseteq Channels /\ at \in {"idle", "wait", "check", "error"}
  /\ \A c \in Channels :
       /\ drive[c].status \subseteq Floating /\ drive[c].unsettled \in 0 .. 4
       /\ \A r \in 2 .. 5 : drive[c].file[r] \in (SUBSET (0 .. 7)) \X (SUBSET (0 .. 7))
  /\ answer \in {0, 1, 2, 3, 7, 13, 19, 20, 21, 22, 23}
  /\ \A i \in 1 .. Len(todo) : \E w \in Where(todo[i].port) :
       call.name \notin {"initialize", "print_error"} => w[1] = call.c

(* Between two calls HOB is off, a pair of registers that was given its    *)
(* upper and then its lower byte holds both, and each register reads back  *)
(* what was written to it: no access leaves HOB behind for the next one.   *)
TaskFileExact ==
  at = "idle" /\ todo = <<>> =>
    \A c \in present :
      /\ ~drive[c].hob
      /\ \A r \in Pairs : Len(expect[c][r]) = 2 =>
           /\ drive[c].file[r] = expect[c][r]
           /\ call = [name |-> "read", c |-> c, x |-> r] => in = expect[c][r][1]
           /\ call = [name |-> "read", c |-> c, x |-> r + 6] => in = expect[c][r][2]

(* What ide_polling returns is about the last command given to the drive,  *)
(* never about the one before or a command still running, and a code of    *)
(* ide_print_error for the primary drive names an error that command ended *)
(* with.                                                                   *)
AnswerFresh ==
  at = "idle" /\ todo = <<>> /\ call.c \in present =>
    LET s == outcome[call.c] IN
    /\ call.name = "polling" => ATA_SR_BSY \notin s
    /\ call.name = "polling" /\ call.x # 0 =>
         (answer = 0 <=> ATA_SR_DRQ \in s) /\ (answer = 2 <=> ATA_SR_ERR \in s)
    /\ call.name = "print_error" /\ call.c = ATA_PRIMARY =>
         (answer = 19 <=> s = {ATA_SR_DRDY, ATA_SR_DF}) /\ (answer = 23 <=> s = {ATA_SR_DRDY})

(* A poll of a channel that has a drive returns, however the command ends. *)
(* (Without a drive the bus reads as busy and the loop has no timeout.)    *)
PollReturns ==
  (at = "wait" /\ call.c \in present) ~> (at = "idle")
=============================================================================
