------------------------------ MODULE Executor ------------------------------
(***************************************************************************)
(* executor.Executor: the template of a view is evaluated once, cut at its *)
(* semicolons into statements that share its arguments, and the statements *)
(* are executed in one transaction, every one of them, whatever becomes of *)
(* the ones before.                                                        *)
(***************************************************************************)
EXTENDS Query

VARIABLES
  exec,        \* "idle", "begin", "running", "done" or "failed"
  statements,  \* what SqlBuilder.Build made
  executed,    \* how many of them were executed, successfully or not
  written,     \* what the open transaction wrote
  sqlErrors,   \* how many statements failed
  db           \* what is committed

executorVars == <<exec, statements, executed, written, sqlErrors, db>>

ExecutorInit ==
  /\ exec = "idle" /\ statements = <<>> /\ executed = 0
  /\ written = <<>> /\ sqlErrors = 0 /\ db = <<>>

\* parser.Parse: commands end at semicolons; blank ones are dropped.
AppendMatched(cut) ==
  IF cut.pending = <<>> THEN cut.commands ELSE Append(cut.commands, cut.pending)

CutNext(cut, token) ==
  IF token.key = ";" THEN [commands |-> AppendMatched(cut), pending |-> <<>>]
  ELSE [cut EXCEPT !.pending = Append(@, token)]

Uncut == [commands |-> <<>>, pending |-> <<>>]

CutUp(sql) == FoldLeft(CutNext, Uncut, sql)

Commands(sql) == AppendMatched(CutUp(sql))

\* View.Expand of a statement: no selector, no parents; used arguments are taken already.
ExpandStatement(command, args, used, vals) ==
  Expand(command, args, used, [where |-> FALSE, in |-> <<>>, batch |-> <<>>, pagination |-> <<>>,
                               criteria |-> Nothing, values |-> vals])

\* A faulty variant: each statement takes its arguments from the first one on.
StatementUsesNone(built, expanded) == built.used

\* The arguments of the template are used up by one statement after another.
StatementUses(built, expanded) == expanded.used

MakeNext(built, command, args, vals) ==
  LET expanded == ExpandStatement(command, args, built.used, vals)
  IN [used |-> StatementUses(built, expanded), failed |-> built.failed \/ expanded.failed,
      made |-> Append(built.made, [sql |-> expanded.sql, args |-> expanded.args])]

Unmade == [used |-> 0, failed |-> FALSE, made |-> <<>>]

Make(commands, args, vals) ==
  FoldLeft(LAMBDA built, command : MakeNext(built, command, args, vals), Unmade, commands)

\* SqlBuilder.Build
BuildStatements(view, vals) ==
  LET source == Evaluate(view.template, vals,
                         [parents |-> <<>>, mock |-> FALSE, consts |-> view.consts, view |-> Nothing])
  IN Make(Commands(source.sql), source.args, vals)

\* Exec: without statements there is nothing to begin.
Prepare(view, vals) ==
  LET built == BuildStatements(view, vals)
  IN /\ exec = "idle"
     /\ exec' = IF built.failed THEN "failed" ELSE IF built.made = <<>> THEN "done" ELSE "begin"
     /\ statements' = built.made
     /\ UNCHANGED <<executed, written, sqlErrors, db>>

\* View.Db, db.Begin
Begin ==
  /\ exec = "begin" /\ exec' \in {"running", "failed"}
  /\ UNCHANGED <<statements, executed, written, sqlErrors, db>>

\* execData
ExecuteStatement ==
  /\ exec = "running" /\ executed < Len(statements)
  /\ executed' = executed + 1
  /\ \/ written' = Append(written, executed + 1) /\ UNCHANGED sqlErrors
     \/ sqlErrors' = sqlErrors + 1 /\ UNCHANGED written
  /\ UNCHANGED <<exec, statements, db>>

Rollback ==
  /\ exec = "running" /\ executed = Len(statements) /\ sqlErrors > 0
  /\ exec' = "failed" /\ written' = <<>>
  /\ UNCHANGED <<statements, executed, sqlErrors, db>>

\* A faulty variant: what was executed is committed although something failed.
CommitAnyway ==
  /\ exec = "running" /\ executed = Len(statements) /\ written # <<>>
  /\ \/ exec' = "done" /\ db' = db \o written
     \/ exec' = "failed" /\ UNCHANGED db
  /\ written' = <<>>
  /\ UNCHANGED <<statements, executed, sqlErrors>>

\* tx.Commit, which can fail.
Commit ==
  /\ exec = "running" /\ executed = Len(statements) /\ sqlErrors = 0
  /\ \/ exec' = "done" /\ db' = db \o written
     \/ exec' = "failed" /\ UNCHANGED db
  /\ written' = <<>>
  /\ UNCHANGED <<statements, executed, sqlErrors>>

ExecutorNext == Begin \/ ExecuteStatement \/ Rollback \/ Commit
=============================================================================
