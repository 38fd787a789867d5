-------------------------------- MODULE Make --------------------------------
(***************************************************************************)
(* The command MAKE (src/cmd_make.c): a Makefile is read line by line into *)
(* a table of targets, then the wanted target is built, those it depends   *)
(* on first.  The table is static: a recipe that calls MAKE again has it   *)
(* read anew, below the targets that are being built.  The Makefiles are   *)
(* those in which no target needs itself; for others the recursion of      *)
(* build_target has no end.                                                *)
(***************************************************************************)
EXTENDS Integers, Sequences

CONSTANTS
  Makefiles,    \* sequences of lines: [kind, name, deps] and [kind, what]
  Goals,        \* what is asked for; "" for the default
  MaxTargets,   \* MAX_TARGETS
  MaxCommands,  \* MAX_TARGET_CMDS
  MaxDeps,      \* MAX_DEPS
  MaxCalls      \* bound of the model

VARIABLES
  file,         \* the Makefile
  targets,      \* targets, up to target_count
  values,       \* the variables: var_names, var_values
  current,      \* current_target, zero for none
  line,         \* the next line
  default, goal,
  stack,        \* the calls of build_target; target zero is cmd_make
  log,          \* lines of the commands that have been run
  pc, result, calls

vars == <<file, targets, values, current, line, default, goal, stack, log,
          pc, result, calls>>

TypeOK ==
  /\ Len(targets) <= MaxTargets
  /\ \A t \in DOMAIN targets :
       Len(targets[t].deps) <= MaxDeps /\ Len(targets[t].commands) <= MaxCommands
  /\ current \in 0..Len(targets) /\ line \in 1..Len(file) + 1
  /\ pc \in {"idle", "parse", "build"} /\ result \in {0, -1} /\ calls \in 0..MaxCalls

Init ==
  /\ file = <<>> /\ targets = <<>> /\ values = [x \in {} |-> ""] /\ current = 0
  /\ line = 1 /\ default = "" /\ goal = "" /\ stack = <<>> /\ log = <<>>
  /\ pc = "idle" /\ result = 0 /\ calls = 0

Frame(t) == [target |-> t, dep |-> 1, command |-> 1]

(* parse_makefile begins with nothing. *)
Parse(g) ==
  /\ targets' = <<>> /\ values' = [x \in {} |-> ""] /\ current' = 0
  /\ line' = 1 /\ default' = "" /\ goal' = g /\ pc' = "parse"

(* cmd_make: the Makefile of the directory, if there is one and it is not   *)
(* empty.                                                                   *)
Call(f, g) ==
  /\ pc = "idle" /\ calls < MaxCalls /\ calls' = calls + 1
  /\ log' = <<>>
  /\ IF f = <<>> THEN result' = -1 /\ UNCHANGED <<file, targets, values, current, line, default, goal, stack, pc>>
     ELSE Parse(g) /\ file' = f /\ stack' = <<Frame(0)>> /\ UNCHANGED result

-----------------------------------------------------------------------------
(* expand_vars: a variable that is not set is empty. *)
Expand(x) ==
  IF x.var = "" THEN x.text
  ELSE IF x.var \in DOMAIN values THEN values[x.var] ELSE ""
Smaller(a, b) == IF a < b THEN a ELSE b

(* One line of parse_makefile.  A rule for which there is no room leaves    *)
(* the target before it the current one.                                    *)
Line ==
  /\ pc = "parse" /\ line <= Len(file) /\ line' = line + 1
  /\ LET l == file[line]
     IN CASE l.kind = "command" /\ current # 0 ->
               /\ targets' = IF Len(targets[current].commands) < MaxCommands
                             THEN [targets EXCEPT ![current].commands =
                                     Append(@, [text |-> Expand(l.what), line |-> line])]
                             ELSE targets
               /\ UNCHANGED <<values, current, default>>
          [] l.kind = "variable" ->
               /\ values' = [x \in DOMAIN values \cup {l.name} |->
                               IF x = l.name THEN Expand(l.what) ELSE values[x]]
               /\ current' = 0
               /\ UNCHANGED <<targets, default>>
          [] l.kind = "rule" /\ Len(targets) < MaxTargets ->
               /\ targets' = Append(targets,
                    [name |-> l.name, commands |-> <<>>, built |-> FALSE,
                     deps |-> [i \in 1..Smaller(Len(l.deps), MaxDeps) |-> Expand(l.deps[i])]])
               /\ current' = Len(targets')
               /\ default' = IF targets = <<>> THEN l.name ELSE default
               /\ UNCHANGED values
          [] l.kind = "other" -> current' = 0 /\ UNCHANGED <<targets, values, default>>
          [] OTHER -> UNCHANGED <<targets, values, current, default>>
  /\ UNCHANGED <<file, goal, stack, log, pc, result, calls>>

-----------------------------------------------------------------------------
(* find_target: the first of the name *)
Find(n) ==
  IF \E t \in DOMAIN targets : targets[t].name = n
  THEN CHOOSE t \in DOMAIN targets :
         targets[t].name = n /\ \A u \in 1..t - 1 : targets[u].name # n
  ELSE 0

table == <<values, current, line, default, goal>>

(* An error ends every call on the stack. *)
Stop == stack' = <<>> /\ pc' = "idle" /\ result' = -1

(* cmd_make goes on: the target that is wanted, or the default.             *)
Begin ==
  /\ pc = "parse" /\ line > Len(file)
  /\ LET t == Find(IF goal = "" THEN default ELSE goal)
     IN IF t = 0 THEN Stop
        ELSE stack' = Append(stack, Frame(t)) /\ pc' = "build" /\ UNCHANGED result
  /\ UNCHANGED <<file, targets, table, log, calls>>

Top == stack[Len(stack)]
Below == SubSeq(stack, 1, Len(stack) - 1)
Building == pc = "build" /\ Top.target # 0

(* build_target: the next target this one depends on; one without a rule,   *)
(* or built already, is passed over.                                        *)
Dependency ==
  /\ Building /\ Top.dep <= Len(targets[Top.target].deps)
  /\ LET t == Find(targets[Top.target].deps[Top.dep])
         here == Append(Below, [Top EXCEPT !.dep = @ + 1])
     IN stack' = IF t = 0 THEN here
                 ELSE IF targets[t].built THEN here ELSE Append(here, Frame(t))
  /\ UNCHANGED <<file, targets, table, log, pc, result, calls>>

(* One command: cmd_dispatch; a name it does not know is no error.  MAKE    *)
(* is a command like others.                                                *)
Command ==
  /\ Building /\ Top.dep > Len(targets[Top.target].deps)
  /\ Top.command <= Len(targets[Top.target].commands)
  /\ LET c == targets[Top.target].commands[Top.command]
     IN /\ log' = Append(log, c.line)
        /\ IF c.text \in Goals
           THEN /\ Parse(c.text)
                /\ stack' = Append(Append(Below, [Top EXCEPT !.command = @ + 1]), Frame(0))
                /\ UNCHANGED result
           ELSE /\ \/ /\ stack' = Append(Below, [Top EXCEPT !.command = @ + 1])
                      /\ UNCHANGED <<pc, result>>
                   \/ Stop
                /\ UNCHANGED <<targets, table>>
  /\ UNCHANGED <<file, calls>>

(* The target is built. *)
Built ==
  /\ Building /\ Top.dep > Len(targets[Top.target].deps)
  /\ Top.command > Len(targets[Top.target].commands)
  /\ targets' = [targets EXCEPT ![Top.target].built = TRUE]
  /\ stack' = Below
  /\ UNCHANGED <<file, table, log, pc, result, calls>>

(* cmd_make returns. *)
Complete ==
  /\ pc = "build" /\ Top.target = 0
  /\ stack' = Below
  /\ IF Below = <<>> THEN pc' = "idle" /\ result' = 0 ELSE UNCHANGED <<pc, result>>
  /\ UNCHANGED <<file, targets, table, log, calls>>

Next ==
  \/ \E f \in Makefiles, g \in {"", "b"} : Call(f, g)
  \/ Line \/ Begin \/ Dependency \/ Command \/ Built \/ Complete

Spec == Init /\ [][Next]_vars

-----------------------------------------------------------------------------
(* The Makefile as it is meant: the recipe of a rule is the commands below  *)
(* it, up to a line that is neither a command nor without a meaning; of two *)
(* rules for one name the first counts.                                     *)
Rules == {l \in DOMAIN file : file[l].kind = "rule"}
Recipe(r) ==
  {l \in DOMAIN file :
     /\ l > r /\ file[l].kind = "command"
     /\ \A k \in r + 1..l - 1 : file[k].kind \in {"command", "comment"}}
RuleFor(n) ==
  {r \in Rules : file[r].name = n /\ \A q \in Rules : file[q].name = n => r <= q}
Needs(r) == UNION {RuleFor(file[r].deps[i].text) : i \in DOMAIN file[r].deps}
Done(l) == {log[i] : i \in 1..l}
Limits ==
  /\ Len(SelectSeq(file, LAMBDA l : l.kind = "rule")) <= MaxTargets
  /\ \A r \in Rules : Len(file[r].deps) <= MaxDeps

(* A recipe is run after those of all that the target depends on, line by   *)
(* line; without MAKE in a recipe none is run twice; and what is said to be *)
(* built is built.                                                          *)
MakeSound ==
  Limits =>
    /\ \A i \in DOMAIN log : \E r \in Rules :
         /\ log[i] \in Recipe(r)
         /\ \A q \in Needs(r) : \A l \in Recipe(q) : l \in Done(i - 1)
         /\ \A l \in Recipe(r) : l < log[i] => l \in Done(i - 1)
    /\ (\A l \in DOMAIN file : file[l].kind = "command" => file[l].what.text \notin Goals) =>
         \A i, j \in DOMAIN log : i # j => log[i] # log[j]
    /\ pc = "idle" /\ result = 0 /\ log # <<>> =>
         LET r == RuleFor(IF goal = "" THEN default ELSE goal)
         IN \A l \in UNION {Recipe(q) : q \in r \cup UNION {Needs(p) : p \in r}} : l \in Done(Len(log))
=============================================================================
