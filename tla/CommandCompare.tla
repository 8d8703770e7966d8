--------------------------- MODULE CommandCompare ---------------------------
(***************************************************************************)
(* Command-line change detection of one do_cmd rule (make.py 150-189).    *)
(* The command text X is what $(cmd_$(1)) expands to when the recipe runs. *)
(* After running it, do_cmd writes                                         *)
(*     @echo '$(call escape_quotes,cmd_$@ := X)' > $(depfile)             *)
(* and the next make reads that line back from $@.d with ':=', so the     *)
(* recorded value passes through escape_quotes, the shell's quoting, the  *)
(* shell's echo and make's immediate expansion.  command_changed compares *)
(* X with the recorded value by substituting each into the other.         *)
(*                                                                         *)
(* Texts are sequences over a small alphabet holding the characters that  *)
(* each stage treats specially: '$' (make), a quote (the shell), a        *)
(* backslash (the shell and dash's echo) and one plain character.  Which  *)
(* /bin/sh runs the recipes is not fixed by the code: it is chosen once   *)
(* at Init among the two echo behaviours a build can meet.                *)
(***************************************************************************)
EXTENDS Naturals, Sequences

CONSTANTS
  Chars,     \* the alphabet
  Dollar, Quote, Backslash,   \* its special members
  MaxLen,    \* the longest command text
  NoRecord   \* no $@.d yet: cmd_$@ is undefined, so it expands to empty

ASSUME {Dollar, Quote, Backslash} \subseteq Chars /\ MaxLen \in Nat

Texts == UNION {[1..n -> Chars] : n \in 0..MaxLen}

Drop(s, n) == SubSeq(s, n + 1, Len(s))

VARIABLES
  shell,     \* "bash" or "dash": whose echo the recipe runs
  cmd,       \* what $(cmd_$(1)) expands to in the current Makefile
  rec,       \* the value of cmd_$@ read back from $@.d, or NoRecord
  recFrom    \* the command whose run wrote $@.d

vars == <<shell, cmd, rec, recFrom>>

(***************************************************************************)
(* GNU make's $(subst from,to,text): scan left to right, replacing every  *)
(* non-overlapping occurrence of from.  An empty from matches only at the *)
(* end of text, so to is appended.                                         *)
(***************************************************************************)
RECURSIVE subst(_, _, _)
subst(from, to, text) ==
  IF from = <<>> THEN text \o to
  ELSE IF Len(text) < Len(from) THEN text
  ELSE IF SubSeq(text, 1, Len(from)) = from
       THEN to \o subst(from, to, Drop(text, Len(from)))
       ELSE <<Head(text)>> \o subst(from, to, Tail(text))

RecText(r) == IF r = NoRecord THEN <<>> ELSE r

\* Mutant: an empty pattern substitutes nothing and yields the empty text.
command_changed_empty_from(x, r) ==
  \/ (IF RecText(r) = <<>> THEN <<>> ELSE subst(RecText(r), <<>>, x)) # <<>>
  \/ (IF x = <<>> THEN <<>> ELSE subst(x, <<>>, RecText(r))) # <<>>

\* Mutant: only one of the two substitutions.
command_changed_one_sided(x, r) == subst(x, <<>>, RecText(r)) # <<>>

(***************************************************************************)
(* command_changed = $(or $(subst $(cmd_$(1)),,$(cmd_$@)),                 *)
(*                        $(subst $(cmd_$@),,$(cmd_$(1)))).                *)
(***************************************************************************)
command_changed(x, r) ==
  \/ subst(x, <<>>, RecText(r)) # <<>>
  \/ subst(RecText(r), <<>>, x) # <<>>

(***************************************************************************)
(* escape_quotes = $(subst ','\'',$(1)), and the echo argument it builds. *)
(***************************************************************************)
\* Mutant: the replacement written with a doubled backslash, '\\''.
escape_quotes_doubled(x) ==
  subst(<<Quote>>, <<Quote, Backslash, Backslash, Quote, Quote>>, x)

escape_quotes(x) == subst(<<Quote>>, <<Quote, Backslash, Quote, Quote>>, x)

EchoArg(x) == <<Quote>> \o escape_quotes(x) \o <<Quote>>

(***************************************************************************)
(* The shell's reading of that word: inside quotes every character is     *)
(* literal up to the next quote; outside, a backslash quotes the next     *)
(* character.                                                              *)
(***************************************************************************)
RECURSIVE Unquote(_, _)
Unquote(s, inq) ==
  IF s = <<>> THEN <<>>
  ELSE IF inq
    THEN IF Head(s) = Quote THEN Unquote(Tail(s), FALSE)
         ELSE <<Head(s)>> \o Unquote(Tail(s), TRUE)
  ELSE IF Head(s) = Quote THEN Unquote(Tail(s), TRUE)
  ELSE IF Head(s) = Backslash /\ Len(s) >= 2
    THEN <<s[2]>> \o Unquote(Drop(s, 2), FALSE)
  ELSE <<Head(s)>> \o Unquote(Tail(s), FALSE)

(***************************************************************************)
(* echo: bash's builtin prints its argument as is; dash's interprets      *)
(* backslash escapes, of which only \\ is in the alphabet.                *)
(***************************************************************************)
RECURSIVE DashEcho(_)
DashEcho(s) ==
  IF s = <<>> THEN <<>>
  ELSE IF Len(s) >= 2 /\ s[1] = Backslash /\ s[2] = Backslash
    THEN <<Backslash>> \o DashEcho(Drop(s, 2))
  ELSE <<Head(s)>> \o DashEcho(Tail(s))

Echo(sh, s) == IF sh = "dash" THEN DashEcho(s) ELSE s

(***************************************************************************)
(* make reading 'cmd_$@ := v' from the included $@.d: ':=' expands v once. *)
(* $$ is a dollar, $c the (undefined, so empty) one-character variable c. *)
(* A dollar that ends the line is kept as it is, as GNU make 3.82 and     *)
(* later do; 3.81 dropped it, which only adds a case to the finding.      *)
(***************************************************************************)
RECURSIVE MakeExpand(_)
MakeExpand(s) ==
  IF s = <<>> THEN <<>>
  ELSE IF Head(s) # Dollar THEN <<Head(s)>> \o MakeExpand(Tail(s))
  ELSE IF Len(s) = 1 THEN <<Dollar>>
  ELSE IF s[2] = Dollar THEN <<Dollar>> \o MakeExpand(Drop(s, 2))
  ELSE MakeExpand(Drop(s, 2))

\* What the next make has as cmd_$@ after a run of command x.
Recorded(sh, x) == MakeExpand(Echo(sh, Unquote(EchoArg(x), FALSE)))

-----------------------------------------------------------------------------
Init ==
  /\ shell \in {"bash", "dash"}
  /\ cmd \in Texts
  /\ rec = NoRecord
  /\ recFrom = NoRecord

\* One make visit of the rule (do_cmd, 181-188): run and record if the
\* command changed.  Input files are not part of this model.
Make ==
  /\ IF command_changed(cmd, rec)
       THEN rec' = Recorded(shell, cmd) /\ recFrom' = cmd
       ELSE UNCHANGED <<rec, recFrom>>
  /\ UNCHANGED <<shell, cmd>>

\* gyp is rerun and writes another cmd_<name> (WriteActions 389-391).
Regenerate(c) ==
  /\ c # cmd
  /\ cmd' = c
  /\ UNCHANGED <<shell, rec, recFrom>>

Next == Make \/ \E c \in Texts : Regenerate(c)

Spec == Init /\ [][Next]_vars

-----------------------------------------------------------------------------
\* Every variable keeps the shape the code gives it.
TypeOK ==
  /\ shell \in {"bash", "dash"} /\ cmd \in Texts
  /\ rec = NoRecord \/ rec \in Texts
  /\ recFrom \in Texts \cup {NoRecord}

\* The double substitution of command_changed is exactly string
\* inequality between the Makefile's command and the recorded one, for
\* every pair make meets, the missing record included (make.py 158-169).
CommandChangedIsInequality == command_changed(cmd, rec) <=> cmd # RecText(rec)

\* After make ran a command and recorded it, an unchanged Makefile does not
\* run it again: the text read back from $@.d equals the command (the
\* do_cmd comment: the record serves to detect command-line changes).
RecordedCommandIsStable ==
  recFrom = cmd => ~command_changed(cmd, rec)
=============================================================================
