------------------------------- MODULE Shell -------------------------------
(***************************************************************************)
(* The command interpreter of servers/shell.c: variables, expansion, the   *)
(* tokenizer, operators, redirection and pipes, and the script blocks that *)
(* are collected line by line.                                             *)
(*                                                                         *)
(* A line is a sequence of lexemes: a word, or one of the characters that  *)
(* the code looks for.  The file system is flat here (module Vfs has the   *)
(* tree), a command prints one unit of output, and commands that only      *)
(* print stand for each other.  The limits of buffers for one line are     *)
(* left out.                                                               *)
(***************************************************************************)
EXTENDS Integers, Sequences, SequencesExt, FiniteSets

CONSTANTS
  Lexeme,           \* words, and the characters that the code looks for
  Input,            \* lines that are typed
  Chain,            \* lists of commands with && and || between them
  Number,           \* what atoi() makes of a word; 0 of any other
  ENV_MAX,          \* 32 in the code
  MAX_TOKENS,       \* 64 in the code
  SCRIPT_BUF_SIZE,  \* 4096 bytes in the code, lexemes here
  SCRIPT_MAX_LINES, \* 64 in the code
  VALUES_MAX,       \* values of a for block, 16 in the code
  PIPE_MAX,         \* units of the pipe buffer, 4095 bytes in the code
  CONTENT_MAX       \* units of a file, 512 bytes in the code

ASSUME ShellAssumption ==
  /\ {ENV_MAX, MAX_TOKENS, SCRIPT_BUF_SIZE, SCRIPT_MAX_LINES, VALUES_MAX, PIPE_MAX, CONTENT_MAX}
       \subseteq Nat \ {0}
  /\ ENV_MAX >= 2
  /\ {"=", "USER", "HOSTNAME", "redlion"} \subseteq Lexeme
  /\ Input \subseteq Seq(Lexeme) \ {<< >>}
  /\ \A line \in Input : Len(line) + 1 < SCRIPT_BUF_SIZE

VARIABLES
  sh,                 \* variables, files, streams; what the line did so far
  script_collecting,
  script_type,        \* "if", "while", "for"
  script_buf,         \* lines collected
  script_var, script_values,
  looping             \* a while block runs

sh_vars == <<sh, script_collecting, script_type, script_buf, script_var, script_values, looping>>

Quote == {"'", "\""}
Delimiter == {" ", "|", ";", "&", ">", "<"}
Operator == {<<"&", "&">>, <<"|", "|">>, <<"|">>, <<";">>, <<">">>, <<">", ">">>}

Cut(list, n) == SubSeq(list, 1, IF Len(list) < n THEN Len(list) ELSE n)

(* The first place at or behind i with one of cs, or the end of the line.  *)
Upto(line, i, cs) ==
  LET places == {j \in i .. Len(line) : line[j] \in cs}
  IN  IF places = {} THEN Len(line) + 1 ELSE CHOOSE j \in places : \A k \in places : j <= k

NonSpace(line, i) == Upto(line, i, {line[j] : j \in 1 .. Len(line)} \ {" "})

(***************************************************************************)
(* Environment: entries NAME=value, in the order they were added.          *)
(***************************************************************************)
Entries(env, name) == {i \in 1 .. Len(env) : IsPrefix(name \o <<"=">>, env[i])}
EntryOf(env, name) == CHOOSE i \in Entries(env, name) : \A k \in Entries(env, name) : i <= k

(* env_get(); an unknown name gives nothing.                               *)
EnvGet(env, name) ==
  IF Entries(env, name) = {} THEN << >>
  ELSE LET entry == env[EntryOf(env, name)] IN SubSeq(entry, Len(name) + 2, Len(entry))

(* env_set(): a full table drops a new name without a word.                *)
EnvSet(env, name, value) ==
  IF Entries(env, name) # {} THEN [env EXCEPT ![EntryOf(env, name)] = name \o <<"=">> \o value]
  ELSE IF Len(env) < ENV_MAX THEN Append(env, name \o <<"=">> \o value)
  ELSE env

EnvUnset(env, name) ==
  IF Entries(env, name) = {} THEN env ELSE RemoveAt(env, EntryOf(env, name))

(* A text is scanned in steps: from i, piece[i] gives out and goes on at    *)
(* next.                                                                   *)
Step(out, next) == [out |-> out, next |-> next]

Scan(n, piece) ==
  LET from[i \in 1 .. n + 2] == IF i > n THEN << >> ELSE piece[i].out \o from[piece[i].next]
  IN  from[1]

(* expand_line(): $NAME up to a space or a quote, ${NAME}, and \$.         *)
Expansion(env, line, i) ==
  LET n     == Len(line)
      brace == Upto(line, i, {"}"})
      name  == Upto(line, i + 1, Quote \cup {" "})
  IN  IF line[i] = "$" /\ i < n /\ line[i + 1] = "{" /\ brace <= n
      THEN Step(EnvGet(env, SubSeq(line, i + 2, brace - 1)), brace + 1)
      ELSE IF line[i] = "$" /\ i < n /\ line[i + 1] # "{"
      THEN Step(EnvGet(env, SubSeq(line, i + 1, name - 1)), name)
      ELSE IF line[i] = "\\" /\ i < n /\ line[i + 1] = "$" THEN Step(<<"$">>, i + 2)
      ELSE Step(<<line[i]>>, i + 1)

Expand(env, line) == Scan(Len(line), [i \in 1 .. Len(line) |-> Expansion(env, line, i)])

(***************************************************************************)
(* tokenize().  The NUL that ends a word is put over the character behind  *)
(* it, operator or not; the NUL behind a one-character operator is where   *)
(* the scan goes on, and stops.                                            *)
(***************************************************************************)
Token(line, i) ==
  LET n     == Len(line)
      quote == Upto(line, i + 1, {line[i]})
      word  == Upto(line, i, Delimiter)
  IN  IF line[i] = "#" THEN Step(<< >>, n + 1)
      ELSE IF line[i] = " " THEN Step(<< >>, i + 1)
      ELSE IF line[i] \in {"&", "|", ">"} /\ i < n /\ line[i + 1] = line[i]
      THEN Step(<<SubSeq(line, i, i + 1)>>, i + 2)
      ELSE IF line[i] \in {"|", ";", ">"} THEN Step(<<<<line[i]>>>>, n + 1)
      ELSE IF line[i] \in Quote THEN Step(<<SubSeq(line, i + 1, quote - 1)>>, quote + 1)
      ELSE Step(<<SubSeq(line, i, word - 1)>>, word + 1)

Tokens(line) == Cut(Scan(Len(line), [i \in 1 .. Len(line) |-> Token(line, i)]), MAX_TOKENS)

(***************************************************************************)
(* Streams.  shell_putc() writes to the screen, or to the pipe buffer as   *)
(* long as there is room.                                                  *)
(***************************************************************************)
Out(s, units) ==
  IF s.target = "FB" THEN [s EXCEPT !.shown = @ \o units]
  ELSE [s EXCEPT !.pipe = Cut(@ \o units, PIPE_MAX)]

Piped(s) == [s EXCEPT !.target = "PIPE", !.pipe = << >>]

(* vfs_write_file() on a flat directory: what does not fit is cut off, a   *)
(* directory is not written.                                               *)
Entered(files, name, entry) ==
  [f \in DOMAIN files \cup {name} |-> IF f = name THEN entry ELSE files[f]]

Written(files, name, units, append) ==
  LET text == IF append /\ name \in DOMAIN files THEN files[name].text \o units ELSE units
  IN  IF name \in DOMAIN files /\ files[name].is_dir THEN files
      ELSE Entered(files, name, [is_dir |-> FALSE, text |-> Cut(text, CONTENT_MAX)])

(***************************************************************************)
(* Built-in commands.  A result is the new state s and the status r.       *)
(***************************************************************************)
Result(s, r) == [s |-> s, r |-> r]
Fails(s, args) == Result(Out(s, <<<<"bash:">> \o args[1]>>), 1)
Has(s, name) == name \in DOMAIN s.files

Touch(s, name) == IF Has(s, name) THEN s.files ELSE Written(s.files, name, << >>, FALSE)

(* cd, ls, mkdir, touch, rm and cat on the name they are given; where cd   *)
(* goes is left to Vfs.                                                    *)
FileCommand(s, args) ==
  LET command == args[1][1]
      name    == args[2]
      isFile  == Has(s, name) /\ ~s.files[name].is_dir
  IN  CASE command = "cat" /\ s.active -> Result(Out(s, s.pipe), 0)
        [] Len(args) < 2 ->
             IF command \in {"cd", "ls"} THEN Result(Out(s, <<args[1]>>), 0) ELSE Fails(s, args)
        [] command = "cd" /\ Has(s, name) /\ ~isFile -> Result(s, 0)
        [] command = "ls" /\ Has(s, name) -> Result(Out(s, <<name>>), 0)
        [] command = "mkdir" /\ ~Has(s, name) ->
             Result([s EXCEPT !.files = Entered(@, name, [is_dir |-> TRUE, text |-> << >>])], 0)
        [] command = "touch" -> Result([s EXCEPT !.files = Touch(s, name)], 0)
        [] command = "rm" /\ Has(s, name) ->
             Result([s EXCEPT !.files = [f \in DOMAIN @ \ {name} |-> @[f]]], 0)
        [] command = "cat" /\ isFile -> Result(Out(s, s.files[name].text), 0)
        [] OTHER -> Fails(s, args)

(* export, unset, hostname and env; NAME=value as a command is Assign.     *)
EnvCommand(s, args) ==
  LET command == args[1][1]
      text    == args[2]
      eq      == Upto(text, 1, {"="})
  IN  CASE command = "export" /\ Len(args) > 1 ->
             IF eq > Len(text) THEN Fails(s, args)
             ELSE Result([s EXCEPT !.env = EnvSet(@, SubSeq(text, 1, eq - 1), SubSeq(text, eq + 1, Len(text)))], 0)
        [] command = "unset" ->
             IF Len(args) < 2 THEN Fails(s, args) ELSE Result([s EXCEPT !.env = EnvUnset(@, text)], 0)
        [] command = "hostname" ->
             IF Len(args) > 1 THEN Result([s EXCEPT !.env = EnvSet(@, <<"HOSTNAME">>, text)], 0)
             ELSE Result(Out(s, <<EnvGet(s.env, <<"HOSTNAME">>)>>), 0)
        [] OTHER -> Result(Out(s, s.env), 0)

(* echo prints its arguments as one unit.                                  *)
Echo(s, args) == Result(Out(s, <<Tail(args)>>), 0)

(* Commands that only print what the system is, and taskmgr under its      *)
(* three names, the only one of them that can fail.                        *)
TaskManager == {<<"taskmgr">>, <<"tasks">>, <<"ps">>}
SystemCommand(s, args) ==
  IF args[1] \in TaskManager /\ Len(args) > 1 /\ args[2] \notin {<<"list">>, <<"info">>}
  THEN Fails(s, args)
  ELSE Result(Out(s, <<args[1]>>), 0)

(* Commands that only print something of their own, like uptime or pwd.    *)
Printed(s, args) == Result(Out(s, <<args[1]>>), 0)

(* clear and play draw on the screen past the stream.                      *)
Drawn(s) == Result(s, 0)

(* reboot and shutdown do not return.                                      *)
Power(s) == Result([s EXCEPT !.halted = TRUE], 0)

One(words) == {<<w>> : w \in words}
FileWord == One({"cd", "ls", "mkdir", "touch", "rm", "cat"})
EnvWord == One({"export", "unset", "hostname", "env", "set"})
SystemWord ==
  TaskManager \cup One({"free", "meminfo", "sysinfo", "pcinfo", "edits", "recent", "services", "svc"})
PrintWord ==
  One({"help", "about", "pwd", "uname", "whoami", "version", "uptime", "history", "neofetch", "fetch"})
PowerWord == One({"reboot", "restart", "shutdown", "poweroff", "halt"})

(* builtin_lookup() and the call.                                          *)
Builtin(s, args) ==
  CASE args[1] \in FileWord                    -> FileCommand(s, args)
    [] args[1] \in EnvWord                     -> EnvCommand(s, args)
    [] args[1] \in SystemWord                  -> SystemCommand(s, args)
    [] args[1] = <<"echo">>                    -> Echo(s, args)
    [] args[1] \in PrintWord                   -> Printed(s, args)
    [] args[1] \in {<<"clear">>, <<"play">>}   -> Drawn(s)
    [] args[1] \in PowerWord                   -> Power(s)
    [] OTHER -> Result(Out(s, <<<<"bash:">> \o args[1]>>), 127)

(* The redirections of run_single_command(), the last one counts; one      *)
(* without a name behind it is dropped.                                    *)
Redirect == {<<">">>, <<">", ">">>, <<"<">>}
NextArgument(acc, tok) ==
  CASE acc.pend = <<"<">>  -> [acc EXCEPT !.pend = << >>]
    [] acc.pend # << >>    -> [acc EXCEPT !.pend = << >>, !.out = {tok}, !.append = (acc.pend # <<">">>)]
    [] tok \in Redirect    -> [acc EXCEPT !.pend = tok]
    [] OTHER               -> [acc EXCEPT !.args = Append(@, tok)]

Redirected(argv) ==
  LET acc[i \in 0 .. Len(argv)] ==
        IF i = 0 THEN [args |-> << >>, out |-> {}, append |-> FALSE, pend |-> << >>]
        ELSE NextArgument(acc[i - 1], argv[i])
  IN  acc[Len(argv)]

Assignment(word) == Upto(word, 1, {"="}) \in 2 .. Len(word) - 1

Assign(s, word) ==
  LET eq == Upto(word, 1, {"="})
  IN  [s EXCEPT !.env = EnvSet(@, SubSeq(word, 1, eq - 1), SubSeq(word, eq + 1, Len(word)))]

(* Mutant: the stream stays redirected. *)
MutWithOutput(s, args, out, append) ==
  LET opened == [s EXCEPT !.files = Written(@, out, << >>, append)]
      done   == Builtin(Piped(opened), args)
  IN  Result([done.s EXCEPT !.files = Written(@, out, done.s.pipe, append), !.pipe = << >>], done.r)

(* A command whose output goes to a file by way of the pipe buffer.        *)
WithOutput(s, args, out, append) ==
  LET opened == [s EXCEPT !.files = Written(@, out, << >>, append)]
      done   == Builtin(Piped(opened), args)
  IN  Result([done.s EXCEPT !.files = Written(@, out, done.s.pipe, append),
                            !.pipe = << >>, !.target = s.target], done.r)

(* run_single_command().  ran records what was executed; nothing is behind *)
(* a shutdown.                                                             *)
Run(s, argv) ==
  LET d == Redirected(argv)
      t == [s EXCEPT !.ran = Append(@, d.args)]
  IN  IF d.args = << >> \/ s.halted THEN Result(s, 0)
      ELSE IF Assignment(d.args[1]) THEN Result(Assign(t, d.args[1]), 0)
      ELSE IF d.out = {} THEN Builtin(t, d.args)
      ELSE WithOutput(t, d.args, CHOOSE o \in d.out : TRUE, d.append)

(***************************************************************************)
(* execute_line(): commands up to an operator each, in order.              *)
(***************************************************************************)
Command(toks, i) ==
  LET end == Upto(toks, i, Operator)
      op  == IF end <= Len(toks) THEN toks[end] ELSE << >>
  IN  Step(<<[argv |-> SubSeq(toks, i, end - 1), op |-> op]>>, end + 1)

Commands(toks) == Scan(Len(toks), [i \in 1 .. Len(toks) |-> Command(toks, i)])

AND == <<"&", "&">>
OR == <<"|", "|">>

(* Mutant: a command that is skipped counts as done. *)
MutSkipped(acc, c) == [acc EXCEPT !.prev = c.op, !.r = 0]

(* A command that is not executed leaves the result of the one before it.  *)
Skipped(acc, c) == [acc EXCEPT !.prev = c.op]

(* One turn of the loop: the right side of a pipe runs whatever came       *)
(* before; another command unless && or || before it says no.  The left    *)
(* side of a pipe runs with the stream turned to the pipe buffer.          *)
Turn(acc, c) ==
  IF acc.left
  THEN LET done == IF c.argv = << >> THEN Result(acc.s, acc.r)
                   ELSE Run([acc.s EXCEPT !.active = TRUE], c.argv)
       IN  [s |-> [done.s EXCEPT !.active = FALSE, !.pipe = << >>], r |-> done.r, prev |-> c.op, left |-> FALSE]
  ELSE IF (acc.prev = AND /\ acc.r # 0) \/ (acc.prev = OR /\ acc.r = 0) \/ c.argv = << >>
  THEN Skipped(acc, c)
  ELSE IF c.op = <<"|">>
  THEN LET done == Run(Piped(acc.s), c.argv)
       IN  [s |-> [done.s EXCEPT !.target = acc.s.target], r |-> done.r, prev |-> << >>, left |-> TRUE]
  ELSE LET done == Run(acc.s, c.argv)
       IN  [s |-> done.s, r |-> done.r, prev |-> c.op, left |-> FALSE]

(* What the pipe buffer holds after the line is not read again.            *)
AllTurns(s, commands) ==
  LET acc[i \in 0 .. Len(commands)] ==
        IF i = 0 THEN [s |-> s, r |-> 0, prev |-> << >>, left |-> FALSE]
        ELSE Turn(acc[i - 1], commands[i])
  IN  acc[Len(commands)]

ExecuteLine(s, line) ==
  [AllTurns(s, Commands(Tokens(Expand(s.env, line)))).s EXCEPT !.pipe = << >>]

(***************************************************************************)
(* Conditions.                                                             *)
(***************************************************************************)
(* The words of a text between spaces.                                     *)
NextWord(text, i) ==
  LET end == Upto(text, i, {" "})
  IN  IF text[i] = " " THEN Step(<< >>, i + 1) ELSE Step(<<SubSeq(text, i, end - 1)>>, end)

Words(text) == Scan(Len(text), [i \in 1 .. Len(text) |-> NextWord(text, i)])

Atoi(word) == IF word \in DOMAIN Number THEN Number[word] ELSE 0

NumberTest(op, x, y) ==
  CASE op = "-eq" -> x = y [] op = "-ne" -> x # y
    [] op = "-lt" -> x < y [] op = "-gt" -> x > y
    [] op = "-le" -> x <= y [] op = "-ge" -> x >= y

(* test_condition_str(): three words are a test if they have an operator,  *)
(* anything else is a command; 0 is true.  = and != are the wrong way      *)
(* round, and -e, -f and -d want a third word.                             *)
TestCondition(s, cond) ==
  LET all == Words(Expand(s.env, cond))
      w   == Cut(all, 8)
      test(holds) == Result(s, IF holds THEN 0 ELSE 1)
  IN  CASE Len(w) # 3                                   -> Run(s, w)
        [] w[2] \in {<<"=">>, <<"=", "=">>}             -> test(w[1] # w[3])
        [] w[2] = <<"!", "=">>                          -> test(w[1] = w[3])
        [] w[1] = <<"-e">>                              -> test(Has(s, w[2]))
        [] w[1] = <<"-f">>                              -> test(Has(s, w[2]) /\ ~s.files[w[2]].is_dir)
        [] w[1] = <<"-d">>                              -> test(Has(s, w[2]) /\ s.files[w[2]].is_dir)
        [] w[2] \in {<<o>> : o \in {"-eq", "-ne", "-lt", "-gt", "-le", "-ge"}} ->
             test(NumberTest(w[2][1], Atoi(w[1]), Atoi(w[3])))
        [] OTHER                                        -> Run(s, w)

(* extract_condition(): what is behind the first word of the header, or    *)
(* what is in its brackets.                                                *)
Condition(header) ==
  LET n    == Len(header)
      text == NonSpace(header, Upto(header, 1, {" "}))
  IN  IF text <= n /\ header[text] = "[" THEN SubSeq(header, text + 1, Upto(header, text, {"]"}) - 1)
      ELSE SubSeq(header, text, n)

(***************************************************************************)
(* Script blocks.  Their lines are expanded twice, here and as a command.  *)
(***************************************************************************)
ScriptLine(s, line) == ExecuteLine(s, Expand(s.env, line))

AllLines(s, lines) ==
  LET after[i \in 0 .. Len(lines)] == IF i = 0 THEN s ELSE ScriptLine(after[i - 1], lines[i])
  IN  after[Len(lines)]

(* Mutant: else runs its lines whatever the condition was. *)
MutMarked(mark, find, exec) == IF mark = <<"then">> THEN find \/ exec ELSE TRUE

(* Whether lines are executed behind `then' or `else'.                     *)
Marked(mark, find, exec) == IF mark = <<"then">> THEN find \/ exec ELSE ~find

IfLine(acc, text, find) ==
  CASE acc.done -> acc
    [] text \in {<<"then">>, <<"else">>} -> [acc EXCEPT !.exec = Marked(text, find, @)]
    [] text = <<"fi">> -> [acc EXCEPT !.done = TRUE]
    [] OTHER -> IF acc.exec THEN [acc EXCEPT !.s = ScriptLine(@, text)] ELSE acc

IfBlock(s, block) ==
  LET cond == TestCondition(s, Condition(block[1]))
      acc[i \in 0 .. Len(block) - 1] ==
        IF i = 0 THEN [s |-> cond.s, exec |-> FALSE, done |-> FALSE]
        ELSE IfLine(acc[i - 1], block[i + 1], cond.r = 0)
  IN  acc[Len(block) - 1].s

(* Everything between the header and the last line is the body, a line     *)
(* with `do' included, which is no command.                                *)
LoopBody(block) == SubSeq(block, 2, Len(block) - 1)

ForPass(s, name, value, body) == AllLines([s EXCEPT !.env = EnvSet(@, name, value)], body)

ForBlock(s, block) ==
  LET after[i \in 0 .. Len(script_values)] ==
        IF i = 0 THEN s ELSE ForPass(after[i - 1], script_var, script_values[i], LoopBody(block))
  IN  after[Len(script_values)]

(* split_script() stops at a limit of lines.                               *)
Lines(buf) == Cut(buf, SCRIPT_MAX_LINES)

(***************************************************************************)
(* shell_update() with a line, and the passes of a while block.            *)
(***************************************************************************)
Fresh == [sh EXCEPT !.ran = << >>, !.shown = << >>]
Starts(line, word) == Len(line) >= 2 /\ line[1] = word /\ line[2] = " "
Header(line) == \E word \in {"if", "while", "for"} : Starts(line, word)
Terminator(line) == line \in {<<"fi">>, <<"done">>}

(* The bytes a block takes, each line with its NUL.                        *)
Used(buf) ==
  LET used[i \in 0 .. Len(buf)] == IF i = 0 THEN 0 ELSE used[i - 1] + Len(buf[i]) + 1
  IN  used[Len(buf)]

(* A line that does not fit into the buffer is dropped without a word.     *)
Collected(line) ==
  IF Used(script_buf) + Len(line) + 2 < SCRIPT_BUF_SIZE THEN Append(script_buf, line) ELSE script_buf

AtPrompt == ~looping /\ ~sh.halted

Execute(line) ==
  /\ AtPrompt /\ ~script_collecting /\ ~Header(line)
  /\ sh' = ExecuteLine(Fresh, line)
  /\ UNCHANGED <<script_collecting, script_type, script_buf, script_var, script_values, looping>>

(* The values of a for block are expanded when its header is read.         *)
Begin(line) ==
  /\ AtPrompt /\ ~script_collecting /\ Header(line)
  /\ sh' = Fresh
  /\ script_collecting' = TRUE
  /\ script_type' = line[1]
  /\ script_buf' = <<line>>
  /\ IF line[1] = "for"
     THEN LET name   == Upto(line, 3, {" "})
              rest   == SubSeq(line, NonSpace(line, name), Len(line))
              words  == Words(IF Starts(rest, "in") THEN Tail(rest) ELSE rest)
          IN  /\ script_var' = SubSeq(line, 3, name - 1)
              /\ script_values' =
                   [i \in 1 .. Len(Cut(words, VALUES_MAX)) |-> Expand(sh.env, words[i])]
     ELSE UNCHANGED <<script_var, script_values>>
  /\ UNCHANGED looping

Collect(line) ==
  /\ AtPrompt /\ script_collecting /\ ~Terminator(line)
  /\ sh' = Fresh
  /\ script_buf' = Collected(line)
  /\ UNCHANGED <<script_collecting, script_type, script_var, script_values, looping>>

(* What a block leaves in its variables is not read again.                 *)
Forget ==
  /\ script_collecting' = FALSE
  /\ looping' = FALSE
  /\ script_buf' = << >> /\ script_type' = "if"
  /\ script_var' = << >> /\ script_values' = << >>

(* execute_script_block() for if and for, and for a block that is too      *)
(* short to be one.                                                        *)
Finish(line) ==
  /\ AtPrompt /\ script_collecting /\ Terminator(line)
  /\ LET block == Lines(Collected(line))
     IN  /\ script_type # "while" \/ Len(block) < 3
         /\ sh' = IF Len(block) < 3 THEN Fresh
                  ELSE IF script_type = "if" THEN IfBlock(Fresh, block)
                  ELSE ForBlock(Fresh, block)
  /\ Forget

BeginLoop(line) ==
  /\ AtPrompt /\ script_collecting /\ Terminator(line)
  /\ script_type = "while" /\ Len(Lines(Collected(line))) >= 3
  /\ script_buf' = Lines(Collected(line))
  /\ looping' = TRUE
  /\ sh' = Fresh
  /\ UNCHANGED <<script_collecting, script_type, script_var, script_values>>

LoopTest == TestCondition(Fresh, Condition(script_buf[1]))

LoopPass ==
  /\ looping /\ ~sh.halted /\ LoopTest.r = 0
  /\ sh' = AllLines(LoopTest.s, LoopBody(script_buf))
  /\ UNCHANGED <<script_collecting, script_type, script_buf, script_var, script_values, looping>>

EndLoop ==
  /\ looping /\ ~sh.halted /\ LoopTest.r # 0
  /\ sh' = LoopTest.s
  /\ Forget

(* shell_init(), with the two variables that the prompt prints.            *)
ShInit ==
  /\ sh = [env |-> << <<"USER", "=", "redlion">>, <<"HOSTNAME", "=", "redlion">> >>,
           files |-> << >>, target |-> "FB", pipe |-> << >>, active |-> FALSE, halted |-> FALSE,
           shown |-> << >>, ran |-> << >>]
  /\ script_collecting = FALSE /\ script_type = "if" /\ script_buf = << >>
  /\ script_var = << >> /\ script_values = << >> /\ looping = FALSE

ShNext ==
  \/ \E line \in Input : Execute(line)
  \/ \E line \in Input : Begin(line)
  \/ \E line \in Input : Collect(line)
  \/ \E line \in Input : Finish(line)
  \/ \E line \in Input : BeginLoop(line)
  \/ LoopPass
  \/ EndLoop

ShSpec == ShInit /\ [][ShNext]_sh_vars

-----------------------------------------------------------------------------
ShTypeOK ==
  /\ DOMAIN sh = {"env", "files", "target", "pipe", "active", "halted", "shown", "ran"}
  /\ script_type \in {"if", "while", "for"}
  /\ {script_collecting, looping} \subseteq BOOLEAN
  /\ script_buf \in Seq(Input)

NameOf(entry) == SubSeq(entry, 1, Upto(entry, 1, {"="}) - 1)

(* A variable has one entry, however it was set: as a command, by export,  *)
(* hostname or a for block (shell.c:98).                                   *)
EnvOK ==
  /\ Len(sh.env) <= ENV_MAX
  /\ \A i, j \in 1 .. Len(sh.env) : NameOf(sh.env[i]) = NameOf(sh.env[j]) => i = j

(* Between two lines output goes to the screen, whatever redirections,     *)
(* pipes, failures and nested calls the lines had (shell.c:1049, 1194).    *)
StreamsOK == sh.halted \/ (sh.target = "FB" /\ ~sh.active /\ sh.pipe = << >>)

(* A block is collected from its header on, within the buffer, and         *)
(* nothing of it is left when the prompt comes back to commands.           *)
ScriptOK ==
  /\ script_collecting \/ script_buf = << >>
  /\ looping => script_collecting /\ Len(script_buf) >= 3
  /\ script_collecting => Header(script_buf[1]) /\ script_type = script_buf[1][1]
  /\ Used(script_buf) < SCRIPT_BUF_SIZE

ShellInv == ShTypeOK /\ EnvOK /\ StreamsOK /\ ScriptOK

(* The text of a chain, and what it should do: a command runs if the last  *)
(* one that ran succeeded, behind &&, or failed, behind ||.                *)
TypedChain(chain) ==
  FlattenSeq([k \in 1 .. Len(chain) |->
    FlattenSeq([i \in 1 .. Len(chain[k].argv) |-> chain[k].argv[i] \o <<" ">>])
      \o (IF k < Len(chain) THEN chain[k].op \o <<" ">> ELSE << >>)])

RunChain(s, chain) ==
  LET after[k \in 0 .. Len(chain)] ==
        IF k = 0 THEN Result(s, 0)
        ELSE IF k = 1 \/ ((after[k - 1].r = 0) = (chain[k - 1].op = AND))
        THEN Run(after[k - 1].s, chain[k].argv)
        ELSE after[k - 1]
  IN  after[Len(chain)].s

(* A line of commands with && and || between them runs those commands and  *)
(* no others, through the tokenizer and the flags of execute_line()        *)
(* (shell.c:211, 1175).                                                    *)
AndOrRight ==
  [][ \A chain \in Chain : Execute(TypedChain(chain)) => sh' = RunChain(Fresh, chain) ]_sh_vars

At(mark) == {i \in 1 .. Len(script_buf) : script_buf[i] = mark}

(* An if block executes the lines of one branch, all of them and in their  *)
(* order: those up to `else' if the condition holds, those behind it if    *)
(* not (shell.c:1347-1363).                                                *)
OneBranch ==
  [][ \A t \in At(<<"then">>), e \in At(<<"else">>) :
        /\ script_collecting /\ ~script_collecting' /\ script_type = "if"
        /\ t < e /\ Cardinality(At(<<"then">>)) = 1 /\ Cardinality(At(<<"else">>)) = 1
        /\ Len(script_buf) <= SCRIPT_MAX_LINES
        /\ Finish(<<"fi">>)
        => LET cond == TestCondition(Fresh, Condition(script_buf[1]))
           IN  sh' = AllLines(cond.s, IF cond.r = 0 THEN SubSeq(script_buf, t + 1, e - 1)
                                      ELSE SubSeq(script_buf, e + 1, Len(script_buf))) ]_sh_vars
=============================================================================
