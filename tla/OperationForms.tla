---------------------------- MODULE OperationForms ----------------------------
(***************************************************************************)
(* What the class of an operation says about the commands it can send.  The  *)
(* gates of the SDK look at a class (read, write, destructive) and never at   *)
(* the command; the router looks at the command line and at nothing else.  A  *)
(* caller names an operation and an input, buildFrames checks the input and   *)
(* renders it, and the command, of one of the operation's forms, goes out     *)
(* under the operation's classes: the one src/domains gives it and the one    *)
(* the manifest gives its entry. LiveReadOnlyClient asks for both.            *)
(***************************************************************************)
EXTENDS CommandForms

CONSTANTS
  Operations,    \* the operations of the registry, with their forms
  ManifestClass  \* the manifest's class of every entry, by id

\* buildSelfAssembledRegistry refuses an id it has seen, and one that the
\* manifest does not have.
Assembled ==
  \A op \in Operations :
    /\ op.id \in DOMAIN ManifestClass
    /\ \A other \in Operations : op.id = other.id => op = other

ASSUME OperationsAssumption ==
  /\ Assembled
  /\ \A op \in Operations :
       /\ op.class \in {"read", "write", "destructive"}
       /\ op.forms # {}
       /\ \A form \in op.forms : WellFormed(form)

VARIABLES called,   \* the operation being run, or Nothing
          command   \* the form of the command built for it

vars == <<called, command>>

Nothing == [id |-> "nothing", class |-> "none", forms |-> {<<>>}]

Init == called = Nothing /\ command = <<>>

\* The input passes the operation's checks and is rendered in one of its forms.
BuildFrames(op, form) ==
  /\ called = Nothing
  /\ called' = op
  /\ command' = form

\* The answer is in, and parsed.
Answered ==
  /\ called # Nothing
  /\ called' = Nothing
  /\ command' = <<>>

Next ==
  \/ \E op \in Operations : \E form \in op.forms : BuildFrames(op, form)
  \/ Answered

Spec == Init /\ [][Next]_vars

-------------------------------------------------------------------------------
\* The command at hand is one that op could have built.
CouldComeFrom(op) == \E form \in op.forms : Overlap(command, form)

\* Displays that a write operation repeats: cli.dos takes -P and -B among its
\* flags, and what follows a flag is free, so it too can say "-P show".
RepeatedShows ==
  { <<"cli.dos.p.show", "cli.dos">>, <<"cli.dos.b.show", "cli.dos">> }

\* What the gates may take an operation for; those that are not plain reads,
\* and those that something takes for destructive.
Classes(op) == {op.class, ManifestClass[op.id]}
Changing == {op \in Operations : Classes(op) # {"read"}}
Irreversible == {op \in Operations : "destructive" \in Classes(op)}

\* What a gate lets pass as "read" is no command of a write: no input of an
\* operation that the registry or the manifest takes for a read gives a command
\* that an operation of another class is there to send. The operation itself is
\* one of those when the two tables of classes disagree about it. Whether a
\* command nobody classes as a write changes something on the router (as
\* service -r does, which cli.service.refresh sends) is not for it to say.
ReadStaysRead ==
  called # Nothing /\ "read" \in Classes(called) =>
    \A op \in Changing :
      <<called.id, op.id>> \notin RepeatedShows => ~CouldComeFrom(op)

\* What cannot be undone is asked for by name: no input of an operation that
\* either table takes for a write gives a command of one that either table
\* takes for destructive.
DestructiveStaysDestructive ==
  called # Nothing /\ "write" \in Classes(called) =>
    \A op \in Irreversible : ~CouldComeFrom(op)
===============================================================================
