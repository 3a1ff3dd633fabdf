------------------------------ MODULE SwapFile ------------------------------
(***************************************************************************)
(* crates/ox-text swapfile.rs and the swap file lifecycle of crates/       *)
(* ox-editor excmd_exec.rs: editors of one file, each a process, choose a  *)
(* swap name, reserve it, write it, rewrite it and remove it, and crash    *)
(* between any two system calls.                                           *)
(*                                                                         *)
(* A name refers to a file and an open descriptor keeps the file it was    *)
(* opened on.  Of a file's blocks remain its head (block zero, with the    *)
(* pid of its creator) and its body (of the text, who wrote it); the file  *)
(* name, host and byte order in the head always match here.  A process     *)
(* crash loses nothing that was written.                                   *)
(***************************************************************************)
EXTENDS Naturals, Sequences, FiniteSets, SequencesExt

CONSTANTS
  Editor,    \* the processes that may edit the file at the same time
  Names,     \* swap names in the order findswapname tries them: .swp, .swo, ...
  MaxStarts  \* bound: processes started, over all

ASSUME NamesAssumption == Names \in Nat \ {0}
ASSUME StartsAssumption == MaxStarts \in Nat

VARIABLES
  disk,   \* name -> the file it refers to, or 0
  files,  \* the files ever created
  ed,     \* editor -> its state
  starts

vars == <<disk, files, ed, starts>>

Empty == [head |-> 0, body |-> 0]
Gone == [alive |-> FALSE, pid |-> 0, modified |-> FALSE,
         name |-> 0,       \* the swap name, pinned once chosen
         written |-> FALSE, \* whether the ledger of written swap files has it
         at |-> "edit",    \* the system call a preserve is before
         look |-> 0, fd |-> 0, writing |-> FALSE, exiting |-> FALSE,
         kept |-> 0]       \* history: the file that holds what was last preserved
                            \* whole, until this process writes it again

Init ==
  /\ disk = [n \in 1..Names |-> 0] /\ files = <<>>
  /\ ed = [e \in Editor |-> Gone] /\ starts = 0

Running(pid) == \E e \in Editor : ed[e].alive /\ ed[e].pid = pid

Sets(e, s) == ed' = [ed EXCEPT ![e] = s]
At(e, call) == ed[e].alive /\ ed[e].at = call

Start(e) ==
  /\ ~ed[e].alive /\ starts < MaxStarts /\ starts' = starts + 1
  /\ Sets(e, [Gone EXCEPT !.alive = TRUE, !.pid = starts'])
  /\ UNCHANGED <<disk, files>>

Crash(e) ==
  /\ ed[e].alive /\ Sets(e, Gone)
  /\ UNCHANGED <<disk, files, starts>>

Edit(e) ==
  /\ At(e, "edit") /\ ~ed[e].modified /\ Sets(e, [ed[e] EXCEPT !.modified = TRUE])
  /\ UNCHANGED <<disk, files, starts>>

WriteFile(e) ==
  /\ At(e, "edit") /\ ed[e].modified /\ Sets(e, [ed[e] EXCEPT !.modified = FALSE])
  /\ UNCHANGED <<disk, files, starts>>

-----------------------------------------------------------------------------
(* buffer_swap_name: the first free name is chosen and pinned; nothing is  *)
(* created yet.                                                            *)

Begun(s, writing) ==
  [s EXCEPT !.writing = writing, !.look = 1, !.at = IF s.name = 0 THEN "scan" ELSE "create"]
SwapName(e) ==
  /\ At(e, "edit") /\ ed[e].name = 0 /\ Sets(e, Begun(ed[e], FALSE))
  /\ UNCHANGED <<disk, files, starts>>
Preserve(e) ==
  /\ At(e, "edit") /\ Sets(e, Begun(ed[e], TRUE))
  /\ UNCHANGED <<disk, files, starts>>

\* A preserve ends, in error or not; the one of an exit ends the process.
Ended(s) ==
  IF s.exiting THEN Gone
  ELSE [s EXCEPT !.at = "edit", !.fd = 0, !.look = 0, !.writing = FALSE]

Exists(e) ==
  /\ At(e, "scan")
  /\ LET s == ed[e]
     IN  Sets(e, CASE disk[s.look] = 0 /\ s.writing -> [s EXCEPT !.name = s.look, !.at = "create"]
                   [] disk[s.look] = 0 /\ ~s.writing -> Ended([s EXCEPT !.name = s.look])
                   [] disk[s.look] # 0 /\ s.look < Names -> [s EXCEPT !.look = @ + 1]
                   [] disk[s.look] # 0 /\ s.look = Names -> Ended(s))
  /\ UNCHANGED <<disk, files, starts>>

-----------------------------------------------------------------------------
(* reserve_swapfile and write, one action per system call *)

\* O_EXCL: the name is created, or it exists and is opened next.
Create(e) ==
  /\ At(e, "create")
  /\ IF disk[ed[e].name] = 0
     THEN /\ files' = Append(files, Empty) /\ disk' = [disk EXCEPT ![ed[e].name] = Len(files')]
          /\ Sets(e, [ed[e] EXCEPT !.fd = Len(files'), !.at = "head"])
     ELSE Sets(e, [ed[e] EXCEPT !.at = "open"]) /\ UNCHANGED <<disk, files>>
  /\ UNCHANGED starts

Open(e) ==
  /\ At(e, "open")
  /\ LET f == disk[ed[e].name]
     IN  Sets(e, IF f = 0 THEN Ended(ed[e]) ELSE [ed[e] EXCEPT !.fd = f, !.at = "check"])
  /\ UNCHANGED <<disk, files, starts>>

\* is_own_swapfile: by its ledger for this process, by the pid for another.
AnyForeign(s, f) == f.head # 0 /\ (f.head = s.pid => s.written)   \* mutant
IsOwn(s, f) == f.head # 0 /\ IF f.head = s.pid THEN s.written ELSE ~Running(f.head)
Check(e) ==
  /\ At(e, "check")
  /\ Sets(e, IF IsOwn(ed[e], files[ed[e].fd]) THEN [ed[e] EXCEPT !.at = "truncate"] ELSE Ended(ed[e]))
  /\ UNCHANGED <<disk, files, starts>>

Kept(f) == f           \* mutant: the file is overwritten without set_len(0)
Truncated(f) == Empty
Truncate(e) ==
  /\ At(e, "truncate") /\ files' = [files EXCEPT ![ed[e].fd] = Truncated(@)]
  /\ Sets(e, [ed[e] EXCEPT !.at = "head", !.kept = 0])
  /\ UNCHANGED <<disk, starts>>

WriteHead(e) ==
  /\ At(e, "head") /\ files' = [files EXCEPT ![ed[e].fd].head = ed[e].pid]
  /\ Sets(e, [ed[e] EXCEPT !.at = "body"])
  /\ UNCHANGED <<disk, starts>>

WriteBody(e) ==
  /\ At(e, "body") /\ files' = [files EXCEPT ![ed[e].fd].body = ed[e].pid]
  /\ Sets(e, Ended([ed[e] EXCEPT !.written = TRUE, !.kept = ed[e].fd]))
  /\ UNCHANGED <<disk, starts>>

\* The disk is full: what was written stays, and the ledger is not told.
WriteFails(e) ==
  /\ At(e, "head") \/ At(e, "body")
  /\ Sets(e, Ended(ed[e]))
  /\ UNCHANGED <<disk, files, starts>>

-----------------------------------------------------------------------------
(* Exits *)

Removed(s) == IF s.written THEN [disk EXCEPT ![s.name] = 0] ELSE disk

\* run_exit_sequence removes every swap file of the ledger.
Exit(e) ==
  /\ At(e, "edit") /\ disk' = Removed(ed[e]) /\ Sets(e, Gone)
  /\ UNCHANGED <<files, starts>>

\* preserve_exit: a modified buffer is preserved first, an unmodified one's file goes.
PreserveExit(e) ==
  /\ At(e, "edit")
  /\ IF ed[e].modified
     THEN Sets(e, [Begun(ed[e], TRUE) EXCEPT !.exiting = TRUE]) /\ UNCHANGED disk
     ELSE disk' = Removed(ed[e]) /\ Sets(e, Gone)
  /\ UNCHANGED <<files, starts>>

-----------------------------------------------------------------------------
Next == \E e \in Editor :
  \/ Start(e) \/ Crash(e) \/ Edit(e) \/ WriteFile(e)
  \/ SwapName(e) \/ Preserve(e) \/ Exists(e)
  \/ Create(e) \/ Open(e) \/ Check(e) \/ Truncate(e) \/ WriteHead(e) \/ WriteBody(e) \/ WriteFails(e)
  \/ Exit(e) \/ PreserveExit(e)

Spec == Init /\ [][Next]_vars

-----------------------------------------------------------------------------
(***************************************************************************)
(* Types; no file has two names; a ledger entry has a name; and no file    *)
(* joins the blocks of two processes: whatever crashes or fails in the     *)
(* middle, recovery finds a text under the head of the process that wrote  *)
(* it, or an incomplete file that it refuses.                              *)
(***************************************************************************)
TypeOK ==
  /\ disk \in [1..Names -> 0..Len(files)]
  /\ \A m, n \in 1..Names : disk[m] = disk[n] /\ disk[m] # 0 => m = n
  /\ \A i \in DOMAIN files : /\ files[i].head \in 0..MaxStarts
                            /\ files[i].body \in {0, files[i].head}
  /\ \A e \in Editor : /\ ed[e].name \in 0..Names /\ ed[e].fd \in 0..Len(files)
                       /\ ed[e].pid \in 0..MaxStarts
                       /\ ed[e].written => ed[e].name # 0

(***************************************************************************)
(* The file into which a running editor has preserved its text stays whole *)
(* and its own until it writes it again: "a live foreign swapfile is never *)
(* reused" (write_to, swapfile.rs).                                        *)
(***************************************************************************)
KeptWhole ==
  \A e \in Editor : ed[e].kept # 0 =>
    files[ed[e].kept] = [head |-> ed[e].pid, body |-> ed[e].pid]

(***************************************************************************)
(* That file is the one under the editor's swap name: a preserve that      *)
(* reported success can be found again after a crash.                      *)
(***************************************************************************)
KeptReachable == \A e \in Editor : ed[e].kept # 0 => disk[ed[e].name] = ed[e].kept
=============================================================================
