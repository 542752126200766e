----------------------------- MODULE FileStore ------------------------------
(***************************************************************************)
(* What a file system promises its callers: the content of a name is what  *)
(* the last completed operation on it left there, until an operation is    *)
(* started on that same name, or the whole volume is given up.             *)
(*                                                                         *)
(* Between the start of an operation on a name and its successful end      *)
(* nothing is promised of that name, and nothing after an operation that   *)
(* failed or that a power loss interrupted.  Operations on one name never  *)
(* touch another one.                                                      *)
(***************************************************************************)
CONSTANTS
  Names,    \* file names
  NoName,   \* no name: no operation is under way
  Unknown,  \* the content of a name nothing is promised of
  Absent    \* the content of a name no file has

VARIABLES
  content,  \* what is promised of every name
  busy      \* the name an operation is under way on

vars == <<content, busy>>

All(c) == [n \in Names |-> c]

Init == content = All(Unknown) /\ busy = NoName

(* An operation on a name starts ... *)
Start(n) ==
  /\ busy = NoName
  /\ busy' = n
  /\ content' = [content EXCEPT ![n] = Unknown]

(* ... or is refused after it has spoiled the file. *)
Spoil(n) ==
  /\ busy = NoName
  /\ content' = [content EXCEPT ![n] = Unknown]
  /\ UNCHANGED busy

(* The operation under way succeeds: its name, and no other, has a content *)
(* one can rely on.                                                        *)
Finish(n) ==
  /\ busy = n
  /\ busy' = NoName
  /\ content'[n] # Unknown
  /\ content' = [content EXCEPT ![n] = content'[n]]

(* It fails, or the power is lost. *)
Abandon == busy' = NoName /\ UNCHANGED content

(* The volume is erased, or its metadata destroyed: by an operation that   *)
(* starts, or by the way one under way has failed.                         *)
GiveUp ==
  /\ busy' = NoName \/ (busy = NoName /\ busy' \in Names)
  /\ content' = All(Unknown)

(* A new, empty volume. *)
Fresh == busy = NoName /\ content' = All(Absent) /\ UNCHANGED busy

Next ==
  \/ \E n \in Names : Start(n) \/ Spoil(n) \/ Finish(n)
  \/ Abandon
  \/ GiveUp
  \/ Fresh

Spec == Init /\ [][Next]_vars

=============================================================================
