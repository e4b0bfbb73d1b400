---------------------------- MODULE ShellEngine ----------------------------
(***************************************************************************)
(* One line of input to the shell: ShellEngine of crates/shell/src/lib.rs  *)
(* with the builtins of crates/ssh_hunt_server/src/builtins.rs that read   *)
(* or change files and variables, as operators on a context of tree,       *)
(* working directory and variables.                                        *)
(* A line is the sequence of tokens that tokenize makes of it: words and   *)
(* operators.  tokenize forgets what was quoted, so a quoted "|" and a     *)
(* variable that holds one are the operator.  A text is a sequence of      *)
(* lines, a line of text a sequence of words; what goes to stderr is left  *)
(* out, and so are the builtins that only turn their input into other      *)
(* text.                                                                   *)
(***************************************************************************)
EXTENDS VfsTree, TLC

CONSTANTS
    PathOf,     \* the paths some words spell: [absolute, parts]
    Variables,  \* the names of variables some words stand for: "$x" for "x"
    Bindings    \* the words "x=v", with their two sides

LOCAL Seqs == INSTANCE SequencesExt

ChainOps == {";", "&&", "||"}
Redirects == {"<", ">", ">>"}
Flags == {"-r", "-a", "-v", "-f", "-d", "-e"}

-----------------------------------------------------------------------------
(* parse_line *)

\* Mutant of Flush: the next command inherits the redirections.
FlushInherits(st) ==
    IF st.words = <<>> THEN st
    ELSE [st EXCEPT !.pipe = Append(@, [program |-> Head(st.words), args |-> Tail(st.words),
                                        in |-> st.in, out |-> st.out]),
                    !.words = <<>>]

\* The words gathered become a command and take the redirections with them.
\* Where there are no words the redirections stay, for whatever comes next.
Flush(st) ==
    IF st.words = <<>> THEN st
    ELSE [st EXCEPT !.pipe = Append(@, [program |-> Head(st.words), args |-> Tail(st.words),
                                        in |-> st.in, out |-> st.out]),
                    !.words = <<>>, !.in = <<>>, !.out = <<>>]

Segment(st) == [op |-> st.op, pipeline |-> st.pipe]

OnPipe(st) == IF st.words = <<>> THEN [st EXCEPT !.err = TRUE] ELSE Flush(st)

OnChain(st, op) ==
    LET f == Flush(st)
    IN  IF f.pipe = <<>> THEN [st EXCEPT !.err = TRUE]
        ELSE [f EXCEPT !.segments = Append(@, Segment(f)), !.pipe = <<>>, !.op = op]

\* Whatever token follows a redirection is its target.
OnTarget(st, t) ==
    [(CASE st.target = "<" -> [st EXCEPT !.in = <<t>>]
        [] st.target = ">" -> [st EXCEPT !.out = <<[path |-> t, append |-> FALSE]>>]
        [] st.target = ">>" -> [st EXCEPT !.out = <<[path |-> t, append |-> TRUE]>>])
     EXCEPT !.target = "none"]

Token(st, t) ==
    CASE st.err -> st
      [] ~st.err /\ st.target # "none" -> OnTarget(st, t)
      [] ~st.err /\ st.target = "none" ->
            CASE t = "|" -> OnPipe(st)
              [] t \in ChainOps -> OnChain(st, t)
              [] t \in Redirects -> [st EXCEPT !.target = t]
              [] OTHER -> [st EXCEPT !.words = Append(@, t)]

\* Before the first token, and after all of them.
Start == [words |-> <<>>, in |-> <<>>, out |-> <<>>, pipe |-> <<>>, segments |-> <<>>,
          op |-> ";", target |-> "none", err |-> FALSE]
Finish(st) ==
    LET f == Flush(st)
    IN  IF st.err \/ st.target # "none" THEN [st EXCEPT !.err = TRUE]
        ELSE IF f.pipe = <<>> THEN f
        ELSE [f EXCEPT !.segments = Append(@, Segment(f)), !.pipe = <<>>]

Parse(tokens) ==
    LET after[n \in 0..Len(tokens)] ==
            IF n = 0 THEN Start ELSE Token(after[n - 1], tokens[n])
    IN  Finish(after[Len(tokens)])

\* A variable gives one token, whatever is in it, and none if it is empty.
ValueOf(t, env) == IF Variables[t] \in DOMAIN env THEN env[Variables[t]] ELSE ""
Expansion(t, env) ==
    IF t \notin DOMAIN Variables THEN <<t>>
    ELSE IF ValueOf(t, env) = "" THEN <<>> ELSE <<ValueOf(t, env)>>
Expanded(tokens, env) ==
    LET upto[n \in 0..Len(tokens)] ==
            IF n = 0 THEN <<>> ELSE upto[n - 1] \o Expansion(tokens[n], env)
    IN  upto[Len(tokens)]

-----------------------------------------------------------------------------
(* Builtins: the context after it, its output and its exit code. *)

Result(ctx, out, exit) == [ctx |-> ctx, out |-> out, exit |-> exit]
Ok(ctx, out) == Result(ctx, out, 0)
Fail(ctx) == Result(ctx, <<>>, 1)

Raw(w) == IF w \in DOMAIN PathOf THEN PathOf[w] ELSE [absolute |-> FALSE, parts |-> <<w>>]
At(ctx, w) == Normalize(ctx.cwd, Raw(w))

Operands(args) == SelectSeq(args, LAMBDA a : a \notin Flags)
HasFlag(args, f) == \E i \in DOMAIN args : args[i] = f

\* The result of one operation on files.
Changed(ctx, r) ==
    [Ok([ctx EXCEPT !.tree = r.tree], <<>>) EXCEPT !.exit = IF r.err = "none" THEN 0 ELSE 1]

\* touch, mkdir and rm take one path after the other and stop at the first
\* that fails, with the others done.
ForEach(program, ctx, paths) ==
    LET After(t, p) == CASE program = "touch" -> Touch(t, p)
                         [] program = "mkdir" -> MkdirP(t, p)
                         [] program = "rm" -> Remove(t, p)
        One(r, w) == IF r.exit # 0 THEN r ELSE Changed(r.ctx, After(r.ctx.tree, At(r.ctx, w)))
    IN  IF paths = <<>> THEN Fail(ctx) ELSE Seqs!FoldLeft(One, Ok(ctx, <<>>), paths)

\* The variable PWD, which follows the directory and is read by lines only, is
\* left out, as are the other variables of a new session (HOME, USER, ...).
ChangeDir(ctx, args) ==
    LET to == IF args = <<>> THEN Root ELSE At(ctx, args[1])
    IN  IF Cd(ctx.tree, to) # "none" THEN Fail(ctx) ELSE Ok([ctx EXCEPT !.cwd = to], <<>>)

Cat(ctx, paths, stdin) ==
    LET Reads(w) == ReadFile(ctx.tree, At(ctx, w))
    IN  IF paths = <<>> THEN Ok(ctx, stdin)
        ELSE IF \E i \in DOMAIN paths : Reads(paths[i]).err # "none" THEN Fail(ctx)
        ELSE Ok(ctx, Seqs!FlattenSeq([i \in DOMAIN paths |-> Reads(paths[i]).data]))

\* The second operand is the only file that is read.
Grep(ctx, args, stdin) ==
    LET ops == Operands(args)
        source == Cat(ctx, IF Len(ops) < 2 THEN <<>> ELSE <<ops[2]>>, stdin)
        Has(l) == \E i \in DOMAIN l : l[i] = ops[1]
        found == SelectSeq(source.out, LAMBDA l : Has(l) # HasFlag(args, "-v"))
    IN  IF ops = <<>> \/ source.exit # 0 \/ found = <<>> THEN Fail(ctx) ELSE Ok(ctx, found)

Tee(ctx, args, stdin) ==
    LET ops == Operands(args)
        r == Changed(ctx, WriteFile(ctx.tree, At(ctx, ops[1]), stdin, HasFlag(args, "-a")))
    IN  IF ops = <<>> THEN Ok(ctx, stdin)
        ELSE IF r.exit # 0 THEN r ELSE Ok(r.ctx, stdin)

CpMv(ctx, program, args) ==
    LET ops == Operands(args)
        from == At(ctx, ops[1])
        to == At(ctx, ops[2])
    IN  IF Len(ops) # 2 THEN Fail(ctx)
        ELSE Changed(ctx, IF program = "mv" THEN Mv(ctx.tree, from, to)
                          ELSE IF HasFlag(args, "-r") THEN CopyTree(ctx.tree, from, to)
                          ELSE Copy(ctx.tree, from, to))

\* Two operands that differ are no failure.
Diff(ctx, args) ==
    LET ops == Operands(args)
        both == Cat(ctx, SubSeq(ops, 1, 2), <<>>)
        Text(i) == Cat(ctx, <<ops[i]>>, <<>>).out
    IN  IF Len(ops) < 2 \/ both.exit # 0 THEN Fail(ctx)
        ELSE Ok(ctx, IF Text(1) = Text(2) THEN <<>> ELSE <<<<"differ">>>>)

\* HashMap::insert
Assign(env, name, value) ==
    [v \in DOMAIN env \cup {name} |-> IF v = name THEN value ELSE env[v]]

Export(ctx, args) ==
    LET One(env, a) == IF a \notin DOMAIN Bindings THEN env
                       ELSE Assign(env, Bindings[a][1], Bindings[a][2])
    IN  Ok([ctx EXCEPT !.env = Seqs!FoldLeft(One, @, args)], <<>>)

Test(ctx, args) ==
    LET p == At(ctx, args[2])
        holds == /\ Len(args) = 2
                 /\ \/ args[1] = "-f" /\ IsFile(ctx.tree, p)
                    \/ args[1] = "-d" /\ IsDir(ctx.tree, p)
                    \/ args[1] = "-e" /\ Stat(ctx.tree, p) = "none"
    IN  IF holds THEN Ok(ctx, <<>>) ELSE Fail(ctx)

\* Where run_line keeps the lines of the session for the builtin `history`.
HistoryPath == <<"tmp", ".history">>
History(ctx) ==
    Ok(ctx, IF IsFile(ctx.tree, HistoryPath) THEN ctx.tree[HistoryPath].data
            ELSE <<<<"No", "history", "yet.">>>>)

Builtin(ctx, program, args, stdin) ==
    CASE program = "cd" -> ChangeDir(ctx, args)
      [] program = "pwd" -> Ok(ctx, <<ctx.cwd>>)
      [] program = "echo" -> Ok(ctx, <<args>>)
      [] program = "cat" -> Cat(ctx, Operands(args), stdin)
      [] program = "less" -> Ok(ctx, stdin)
      [] program = "grep" -> Grep(ctx, args, stdin)
      [] program = "tee" -> Tee(ctx, args, stdin)
      [] program \in {"touch", "mkdir"} -> ForEach(program, ctx, args)
      [] program = "rm" -> ForEach(program, ctx, Operands(args))
      [] program \in {"cp", "mv"} -> CpMv(ctx, program, args)
      [] program = "diff" -> Diff(ctx, args)
      [] program = "export" -> Export(ctx, args)
      [] program = "test" -> Test(ctx, args)
      [] program = "true" -> Ok(ctx, <<>>)
      [] program = "false" -> Fail(ctx)
      [] program = "history" -> History(ctx)
      [] OTHER -> Result(ctx, <<>>, 127)

-----------------------------------------------------------------------------
(* execute_pipeline and execute *)

\* What a redirection of the output makes of what a command has returned.
Written(ran, redirect) ==
    LET wrote == WriteFile(ran.ctx.tree, At(ran.ctx, redirect.path), ran.out, redirect.append)
    IN  Result([ran.ctx EXCEPT !.tree = wrote.tree], <<>>,
               IF wrote.err = "none" THEN ran.exit ELSE 1)
        @@ [stopped |-> wrote.err # "none"]

\* One command of a pipeline, after the commands before it have left r.  A
\* redirection that fails ends the pipeline on the spot.
Redirected(r, command) ==
    LET input == IF command.in = <<>> THEN [data |-> r.out, err |-> "none"]
                 ELSE ReadFile(r.ctx.tree, At(r.ctx, command.in[1]))
        ran == Builtin(r.ctx, command.program, command.args, input.data)
    IN  IF input.err # "none" THEN Fail(r.ctx) @@ [stopped |-> TRUE]
        ELSE IF command.out = <<>> THEN ran @@ [stopped |-> FALSE]
        ELSE Written(ran, command.out[1])

RunPipeline(ctx, pipeline) ==
    LET One(r, command) == IF r.stopped THEN r ELSE Redirected(r, command)
    IN  Seqs!FoldLeft(One, Ok(ctx, <<>>) @@ [stopped |-> FALSE], pipeline)

Due(op, exit) == op = ";" \/ (op = "&&" /\ exit = 0) \/ (op = "||" /\ exit # 0)

\* Mutant of WithStatus: a status that a line has set itself stays.
WithStatusOnce(ctx, exit) ==
    IF ctx.env["?"] \in {"0", "1", "127"} THEN [ctx EXCEPT !.env = Assign(@, "?", ToString(exit))] ELSE ctx

\* The status of each pipeline is there for the next one to read, but not for
\* this line's own "$?", which is expanded before anything runs.
WithStatus(ctx, exit) ==
    [tree |-> ctx.tree, cwd |-> ctx.cwd, env |-> Assign(ctx.env, "?", ToString(exit))]

Ended(ran) == Result(WithStatus(ran.ctx, ran.exit), ran.out, ran.exit)
RunSegment(r, segment) ==
    IF Due(segment.op, r.exit) THEN Ended(RunPipeline(r.ctx, segment.pipeline)) ELSE r

RunSegments(ctx, segments) ==
    LET after[n \in 0..Len(segments)] ==
            IF n = 0 THEN Ok(ctx, <<>>) ELSE RunSegment(after[n - 1], segments[n])
    IN  after[Len(segments)]

\* A line that is nothing but a binding of a proper name sets its variable; any
\* other is parsed and run segment by segment, and the last one that ran speaks
\* for the line.
IsBinding(tokens) ==
    Len(tokens) = 1 /\ tokens[1] \in DOMAIN Bindings /\ Bindings[tokens[1]][1] # "?"
Refuses(ctx, tokens) == ~IsBinding(tokens) /\ Parse(Expanded(tokens, ctx.env)).err
Execute(ctx, tokens) ==
    IF IsBinding(tokens) THEN Ok(WithStatus(Export(ctx, tokens).ctx, 0), <<>>)
    ELSE RunSegments(ctx, Parse(Expanded(tokens, ctx.env)).segments)
=============================================================================
