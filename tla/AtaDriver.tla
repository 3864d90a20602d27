----------------------------- MODULE AtaDriver -----------------------------
(***************************************************************************)
(* The polling ATA driver of kernel/kmain.mx against a drive that works at *)
(* its own pace: the driver reads the status port a bounded number of      *)
(* times, the drive clears BSY, raises DRQ or ERR between any two reads,   *)
(* or never answers.  One sector stands for the medium; its value is the   *)
(* number of the call that wrote it.                                       *)
(***************************************************************************)
EXTENDS Naturals

CONSTANTS
    MaxPolls,       \* reads of the status port before a wait gives up (10^6)
    MaxCalls        \* bound: calls of ata_read and ata_write

ASSUME PollsAssumption == MaxPolls \in Nat \ {0} /\ MaxCalls \in Nat

Garbage == MaxCalls + 1     \* words read from the port outside a read
Empty == MaxCalls + 2       \* nothing in the drive's buffer
Values == 0 .. MaxCalls

VARIABLES
    status,     \* the status port: [bsy, drq, err, rdy]
    attached,   \* FALSE: a floating bus that reads 0xFF
    cmd,        \* what the drive is executing: "none", "read", "write" (it
                \* wants the data), "store" (it has them), "flush"
    held,       \* data the drive has taken and not stored, or Empty
    medium,     \* the value of the sector
    abandoned,  \* the driver has given up waiting for DRQ: a command it sent
                \* and takes for failed may still be answered
    faulted,    \* the drive has failed a sector it had taken
    pc, polls, diskOk, op, calls,
    buf,        \* the caller's buffer after a read
    ret         \* result of the last call

drive == <<status, attached, cmd, held, medium, faulted>>
driver == <<pc, polls, diskOk, op, calls, buf, ret>>
ataVars == <<drive, abandoned, driver>>

AtaTypeOK ==
    /\ status \in [bsy : BOOLEAN, drq : BOOLEAN, err : BOOLEAN, rdy : BOOLEAN]
    /\ attached \in BOOLEAN /\ abandoned \in BOOLEAN /\ faulted \in BOOLEAN
    /\ diskOk \in BOOLEAN
    /\ cmd \in {"none", "read", "write", "store", "flush"}
    /\ held \in Values \cup {Empty} /\ medium \in Values
    /\ pc \in {"detect", "spinup", "rdy", "idle", "free", "command", "drq",
               "transfer", "taken", "flush", "flushed"}
    /\ polls \in 0 .. MaxPolls /\ calls \in 0 .. MaxCalls
    /\ op \in {"none", "read", "write"}
    /\ buf \in Values \cup {Garbage} /\ ret \in {"none", "true", "false"}

AtaInit ==
    /\ attached \in BOOLEAN
    /\ status \in [bsy : BOOLEAN, drq : {FALSE}, err : {FALSE}, rdy : BOOLEAN]
    /\ cmd = "none" /\ held = Empty /\ medium = 0
    /\ abandoned = FALSE /\ faulted = FALSE
    /\ pc = "detect" /\ polls = 0 /\ diskOk = FALSE
    /\ op = "none" /\ calls = 0 /\ buf = 0 /\ ret = "none"

-----------------------------------------------------------------------------
(* The drive. *)

Latest == IF held = Empty THEN medium ELSE held     \* what a read returns

(* The drive answers when it likes, also after the driver has given up.    *)
Answer(drq, err) ==
    /\ attached /\ status.bsy
    /\ status' = [status EXCEPT !.bsy = FALSE, !.drq = drq, !.err = err]
    /\ UNCHANGED <<attached, abandoned, driver>>

(* Power-on self test done. *)
SpinUp ==
    /\ cmd = "none" /\ Answer(FALSE, FALSE)
    /\ UNCHANGED <<cmd, held, medium, faulted>>

(* The sector is in the drive's buffer, or the drive waits for one. *)
AskTransfer ==
    /\ cmd \in {"read", "write"}
    /\ Answer(TRUE, FALSE)
    /\ UNCHANGED <<cmd, held, medium, faulted>>

(* Bad sector, or the command is refused before any data. *)
RefuseTransfer ==
    /\ cmd \in {"read", "write"}
    /\ Answer(FALSE, TRUE)
    /\ cmd' = "none" /\ UNCHANGED <<held, medium, faulted>>

(* The sector handed over is stored at once, kept for the flush, or lost   *)
(* with ERR or DF raised.                                                  *)
TakeData ==
    /\ cmd = "store"
    /\ cmd' = "none"
    /\ \/ Answer(FALSE, FALSE) /\ medium' = Latest /\ held' = Empty /\ UNCHANGED faulted
       \/ Answer(FALSE, FALSE) /\ UNCHANGED <<held, medium, faulted>>
       \/ /\ Answer(FALSE, TRUE)
          /\ held' = Empty /\ faulted' = TRUE /\ UNCHANGED medium

FlushDone ==
    /\ cmd = "flush"
    /\ Answer(FALSE, FALSE)
    /\ medium' = Latest /\ held' = Empty /\ cmd' = "none"
    /\ UNCHANGED faulted

Drive == SpinUp \/ AskTransfer \/ RefuseTransfer \/ TakeData \/ FlushDone

(* A command written while the drive is busy or owes data is ignored. *)
Accepts == attached /\ ~status.bsy /\ ~status.drq

Issue(c) ==
    IF Accepts
    THEN /\ status' = [status EXCEPT !.bsy = TRUE, !.drq = FALSE, !.err = FALSE]
         /\ cmd' = c /\ UNCHANGED <<attached, held, medium, faulted>>
    ELSE UNCHANGED drive

-----------------------------------------------------------------------------
(* The driver. *)

Goto(label) == pc' = label /\ polls' = 0

(* One more read of the status port, if the bound allows it. *)
(* Mutant: the bound is off by one. *)
MorePollsLoose == polls <= MaxPolls
MorePolls == polls < MaxPolls

Polled == polls' = polls + 1 /\ UNCHANGED <<pc, ret, diskOk, op, calls>>

Return(r) ==
    /\ pc' = "idle" /\ polls' = 0 /\ ret' = r
    /\ UNCHANGED <<diskOk, op, calls>>

(* ata_init: 0xFF is a floating bus. *)
Detect ==
    /\ pc = "detect"
    /\ IF attached THEN Goto("spinup") /\ UNCHANGED ret
                   ELSE Goto("idle") /\ ret' = "false"
    /\ UNCHANGED <<drive, abandoned, diskOk, op, calls, buf>>

DetectReady ==
    /\ pc = "rdy"
    /\ diskOk' = status.rdy
    /\ ret' = IF status.rdy THEN "true" ELSE "false"
    /\ Goto("idle")
    /\ UNCHANGED <<drive, abandoned, op, calls, buf>>

Call(o) ==
    /\ pc = "idle" /\ calls < MaxCalls
    /\ calls' = calls + 1 /\ op' = o
    /\ IF diskOk THEN Goto("free") /\ ret' = "none"
                 ELSE UNCHANGED <<pc, polls>> /\ ret' = "false"
    /\ UNCHANGED <<drive, abandoned, diskOk, buf>>

(* One read of the status port in ata_wait_bsy, and where true leads. *)
WaitBsy ==
    /\ pc \in {"spinup", "free", "taken", "flushed"}
    /\ MorePolls
    /\ IF status.bsy
       THEN Polled
       ELSE IF pc = "flushed" THEN Return("true")
       ELSE /\ Goto(CASE pc = "spinup" -> "rdy" [] pc = "free" -> "command"
                      [] pc = "taken" -> "flush")
            /\ UNCHANGED <<ret, diskOk, op, calls>>
    /\ UNCHANGED <<drive, abandoned, buf>>

(* Mutant: the count starts again instead. *)
WaitStartsAgain ==
    /\ pc \in {"spinup", "free", "drq", "taken", "flushed"}
    /\ polls = MaxPolls /\ polls' = 0
    /\ UNCHANGED <<drive, abandoned, pc, diskOk, op, calls, buf, ret>>

(* The million reads are used up.  A wait for BSY leaves driver and drive in *)
(* step, the next call begins with one; a wait for DRQ leaves a command.     *)
WaitTimesOut ==
    /\ pc \in {"spinup", "free", "drq", "taken", "flushed"}
    /\ polls = MaxPolls
    /\ abandoned' = (abandoned \/ pc = "drq")
    /\ Return("false")
    /\ UNCHANGED <<drive, buf>>

SendCommand ==
    /\ pc = "command"
    /\ Issue(op)
    /\ Goto("drq")
    /\ UNCHANGED <<abandoned, diskOk, op, calls, buf, ret>>

Refused == ~status.bsy /\ status.err

(* Mutant: BSY clear is taken for DRQ, and ERR is not looked at. *)
DataReadyUnchecked == ~status.bsy
DataReady == ~status.bsy /\ ~status.err /\ status.drq

(* One read of the status port in ata_wait_drq: ERR and DF fail fast. *)
WaitDrq ==
    /\ pc = "drq" /\ MorePolls
    /\ \/ Refused /\ Return("false")
       \/ DataReady /\ Goto("transfer") /\ UNCHANGED <<ret, diskOk, op, calls>>
       \/ ~Refused /\ ~DataReady /\ Polled
    /\ UNCHANGED <<drive, abandoned, buf>>

(* 256 words through the data port; the drive ends its data phase. *)
TransferIn ==
    /\ pc = "transfer" /\ op = "read"
    /\ buf' = IF cmd = "read" THEN Latest ELSE Garbage
    /\ IF cmd = "read"
       THEN status' = [status EXCEPT !.drq = FALSE] /\ cmd' = "none"
       ELSE UNCHANGED <<status, cmd>>
    /\ Return("true")
    /\ UNCHANGED <<attached, held, medium, faulted, abandoned>>

TransferOut ==
    /\ pc = "transfer" /\ op = "write"
    /\ IF cmd = "write"
       THEN /\ held' = calls /\ cmd' = "store"
            /\ status' = [status EXCEPT !.drq = FALSE, !.bsy = TRUE]
       ELSE UNCHANGED <<held, cmd, status>>
    /\ Goto("taken")
    /\ UNCHANGED <<attached, medium, faulted, abandoned, diskOk, op, calls, buf, ret>>

(* Mutant: the cache is not flushed. *)
SkipFlush ==
    /\ pc = "flush"
    /\ Return("true")
    /\ UNCHANGED <<drive, abandoned, buf>>

SendFlush ==
    /\ pc = "flush"
    /\ Issue("flush")
    /\ Goto("flushed")
    /\ UNCHANGED <<abandoned, diskOk, op, calls, buf, ret>>

Driver == Detect \/ DetectReady \/ WaitBsy \/ WaitTimesOut \/ SendCommand
             \/ WaitDrq \/ TransferIn \/ TransferOut \/ SendFlush

AtaNext == Drive \/ Driver \/ \E o \in {"read", "write"} : Call(o)

(* The handler runs; nothing obliges the drive to answer. *)
AtaSpec == AtaInit /\ [][AtaNext]_ataVars /\ WF_ataVars(Driver)

-----------------------------------------------------------------------------
(* Properties. *)

(* ata_read returns true only with the sector in the buffer, whatever the  *)
(* calls before it left the drive doing.                                   *)
ReadTrueMeansRead ==
    pc = "idle" /\ op = "read" /\ ret = "true" => buf = Latest

(* So it is, over calls that time out before a command is sent or after    *)
(* its data, until a command is given up while it waits for DRQ, ...       *)
ReadTrueUntilAbandoned == ~abandoned => ReadTrueMeansRead

(* ... and until then ata_write returns true only when the medium holds    *)
(* the sector, on a drive that fails no sector it has taken.               *)
WriteTrueUntilFault ==
    ~abandoned /\ ~faulted =>
        (pc = "idle" /\ op = "write" /\ ret = "true" => medium = calls)

(* Every call returns, whether or not the drive ever answers: the bounded  *)
(* polls of ata_wait_bsy and ata_wait_drq.                                 *)
CallReturns == pc # "idle" ~> pc = "idle"

=============================================================================
