----------------------------- MODULE LineStore -----------------------------
(***************************************************************************)
(* What MortFS promises its user: a set of named files, each a sequence of *)
(* bytes that grows by whole lines.  `live' is what the shell sees now,    *)
(* `saved' what a power cut would leave.  A command changes `live' by one  *)
(* file at a time; files are saved behind it in any order, but only ever   *)
(* to their live content; a command that is acknowledged has been saved.   *)
(***************************************************************************)
EXTENDS Sequences

CONSTANTS
    Names,      \* file names
    Bytes,      \* what a file is made of
    Lines,      \* the lines a `write' command can append, newline included
    Absent      \* the content of a file that does not exist

VARIABLES
    live,       \* name -> content, or Absent
    saved,      \* name -> the content found after a power cut
    reply       \* "none" | "ok" | "error": answer to the last command

vars == <<live, saved, reply>>

Content == Seq(Bytes)

Init ==
    /\ live = saved
    /\ \A n \in Names : saved[n] = Absent \/ saved[n] \in Content
    /\ reply = "none"

Create(n) ==
    /\ live[n] = Absent
    /\ live' = [live EXCEPT ![n] = << >>]

AppendLine(n, l) ==
    /\ live[n] # Absent
    /\ live' = [live EXCEPT ![n] = @ \o l]

Remove(n) ==
    /\ live[n] # Absent
    /\ live' = [live EXCEPT ![n] = Absent]

(* One file changes in memory; nothing is saved yet, nothing answered. *)
Update ==
    /\ \E n \in Names : Create(n) \/ Remove(n) \/ \E l \in Lines : AppendLine(n, l)
    /\ reply' = "none"
    /\ UNCHANGED saved

(* Some files reach the disk, each with its live content. *)
Persist ==
    /\ \E S \in SUBSET Names :
          saved' = [n \in Names |-> IF n \in S THEN live[n] ELSE saved[n]]
    /\ reply' \in {"none", "error"}
    /\ UNCHANGED live

(* The command succeeds: all it (and every command before it) did is saved. *)
Acknowledge ==
    /\ saved' = live
    /\ reply' = "ok"
    /\ UNCHANGED live

PowerCut ==
    /\ live' = saved
    /\ reply' = "none"
    /\ UNCHANGED saved

Next == Update \/ Persist \/ Acknowledge \/ PowerCut

Spec == Init /\ [][Next]_vars

=============================================================================
