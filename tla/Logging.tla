------------------------------- MODULE Logging -------------------------------
(***************************************************************************)
(* src/src/logger/Logging.{h,cc}: the LOG_ macros.  A log statement makes  *)
(* a Logger, streams items into its LogStream, and its destructor gives    *)
(* the line to g_output: stdout, or AsyncLogging::append once setOutput    *)
(* was called.  LOG_FATAL then flushes and aborts the process.             *)
(*                                                                         *)
(* The Logger is private to its thread; the threads meet in g_logLevel,    *)
(* in stdout and in AsyncLogging.tla, which this module extends.           *)
(*                                                                         *)
(* A load says what a behaviour may do: which threads log how many lines   *)
(* at which levels, of which items and how many a line, and whether an     *)
(* AsyncLogging takes the lines.                                           *)
(***************************************************************************)
EXTENDS AsyncLogging, LogStream

CONSTANTS
  Writers,  \* the threads that log
  Loads     \* the loads TLC chooses from

TRACE == 0
DEBUG == 1
INFO  == 2
WARN  == 3
ERROR == 4
FATAL == 5
LogLevel == TRACE..FATAL

ASSUME LoadAssumption ==
  Loads \subseteq [writers : SUBSET Writers, lines : 0..MaxLines, levels : SUBSET LogLevel,
                   items : SUBSET Item, perLine : Nat, async : BOOLEAN]

VARIABLES
  load,
  g_logLevel, g_output,
  at,       \* where a thread is in its log statement
  level,    \* of that statement
  said,     \* the items streamed in that statement
  stream,   \* buffer_ of its LogStream
  whole,    \* none of the line was dropped
  stdout,   \* lines given to fwrite
  shown,    \* lines of those that were there at the last fflush
  place,    \* which of them was the thread's last
  alive     \* abort() was not called

logger  == <<at, level, said, stream, whole>>
process == <<load, g_logLevel, g_output>>
console == <<stdout, shown, place>>
logVars == <<logger, process, console, alive>>
allVars == <<vars, logVars>>

(* SourceFile: what follows the last '/'. *)
SourceFile(path) ==
  LET slash == Max({0} \cup {i \in 1..Len(path) : path[i] = "/"}) IN SubSeq(path, slash + 1, Len(path))

File == <<"d", "/", "f">>   \* __FILE__
Line == 7                   \* __LINE__

(* AsyncLogging takes any line, and there is room for the longest header. *)
ASSUME LineAssumption == 1..(SIZE - 1) \subseteq LineLens /\ SIZE > 5 /\ Line \in Ints

(* Impl::Impl: the time and its microseconds (formatTime), the level. *)
Header == AppendText(AppendText(AppendText(<<>>, <<"T">>), <<"u">>), <<"L">>)

HasFunc(lv) == lv \in {TRACE, DEBUG}

WithFunc(lv) == IF HasFunc(lv) THEN AppendText(AppendText(Header, <<"g">>), <<" ">>) ELSE Header

(* Impl::finish: " - ", the file name, ':', the line number, '\n'. *)
Finished(b) ==
  LET named    == AppendText(AppendText(AppendText(b, <<" ", "-", " ">>), SourceFile(File)), <<":">>)
      numbered == AppendNumber(named, Decimal(Line))
  IN AppendText(numbered, <<"\n">>)

Ending == <<" ", "-", " ">> \o SourceFile(File) \o <<":">> \o Decimal(Line) \o <<"\n">>

-----------------------------------------------------------------------------
(* The macros' test; WARN and above have none. *)
Enabled(lv) == lv >= WARN \/ g_logLevel <= lv

Busy == Cardinality({t \in Writers : at[t] \in {"stream", "output"}})

(* LOG_XXX: the temporary Logger. *)
Log(t, lv) ==
  /\ at[t] = "idle" /\ t \in load.writers /\ lv \in load.levels
  /\ lines + stdout + Busy < load.lines
  /\ Enabled(lv)
  /\ at' = [at EXCEPT ![t] = "stream"]
  /\ level' = [level EXCEPT ![t] = lv]
  /\ stream' = [stream EXCEPT ![t] = WithFunc(lv)]
  /\ said' = [said EXCEPT ![t] = <<>>]
  /\ whole' = [whole EXCEPT ![t] = TRUE]
  /\ UNCHANGED <<vars, process, console, alive>>

(* stream() << item *)
Stream(t, item) ==
  /\ at[t] = "stream" /\ item \in load.items
  /\ Len(said[t]) < load.perLine
  /\ stream' = [stream EXCEPT ![t] = Insert(@, item)]
  /\ said' = [said EXCEPT ![t] = Append(@, item)]
  /\ whole' = [whole EXCEPT ![t] = @ /\ stream'[t] = stream[t] \o Chars(item)]
  /\ UNCHANGED <<vars, at, level, process, console, alive>>

(* ~Logger: finish(), before the line goes out. *)
Finish(t) ==
  /\ at[t] = "stream"
  /\ at' = [at EXCEPT ![t] = "output"]
  /\ stream' = [stream EXCEPT ![t] = Finished(@)]
  /\ whole' = [whole EXCEPT ![t] = @ /\ stream'[t] = stream[t] \o Ending]
  /\ UNCHANGED <<vars, level, said, process, console, alive>>

AfterOutput_NoFlush(t) == IF level[t] = FATAL THEN "abort" ELSE "idle"

AfterOutput(t) == IF level[t] = FATAL THEN "flush" ELSE "idle"

(* g_output(buf.data(), buf.length()) *)
OutputStdout(t) ==
  /\ g_output = "stdout"
  /\ stdout' = stdout + 1
  /\ place' = [place EXCEPT ![t] = stdout + 1]
  /\ UNCHANGED <<vars, shown>>

OutputAsync(t) ==
  /\ g_output = "async"
  /\ append(Len(stream[t]))
  /\ place' = [place EXCEPT ![t] = 0]
  /\ UNCHANGED <<stdout, shown>>

Output(t) ==
  /\ at[t] = "output"
  /\ OutputStdout(t) \/ OutputAsync(t)
  /\ at' = [at EXCEPT ![t] = AfterOutput(t)]
  /\ stream' = [stream EXCEPT ![t] = <<>>]
  /\ said' = [said EXCEPT ![t] = <<>>]
  /\ UNCHANGED <<level, whole, process, alive>>

(* g_flush() of a FATAL line is fflush(stdout) *)
Flush(t) ==
  /\ at[t] = "flush"
  /\ at' = [at EXCEPT ![t] = "abort"]
  /\ shown' = stdout
  /\ UNCHANGED <<vars, level, said, stream, whole, process, stdout, place, alive>>

Abort(t) ==
  /\ at[t] = "abort"
  /\ alive' = FALSE
  /\ UNCHANGED <<vars, logger, process, console>>

-----------------------------------------------------------------------------
(* Logger::setLogLevel, at any time. *)
setLogLevel(lv) ==
  /\ lv \in load.levels
  /\ g_logLevel' = lv
  /\ UNCHANGED <<vars, logger, load, g_output, console, alive>>

(* Logger::setOutput with the append of a started AsyncLogging, while no   *)
(* other thread logs (g_output is not guarded).                            *)
setOutput ==
  /\ load.async /\ owner = "started" /\ g_output = "stdout"
  /\ \A t \in Writers : at[t] = "idle"
  /\ g_output' = "async"
  /\ UNCHANGED <<vars, logger, load, g_logLevel, console, alive>>

Async(step) == step /\ UNCHANGED logVars

LogInit ==
  /\ Init
  /\ load \in Loads
  /\ g_logLevel = INFO
  /\ g_output = "stdout"
  /\ at = [t \in Writers |-> "idle"]
  /\ level = [t \in Writers |-> INFO]
  /\ said = [t \in Writers |-> <<>>]
  /\ stream = [t \in Writers |-> <<>>]
  /\ whole = [t \in Writers |-> TRUE]
  /\ stdout = 0
  /\ shown = 0
  /\ place = [t \in Writers |-> 0]
  /\ alive = TRUE

LogNext ==
  /\ alive
  /\ \/ \E t \in Writers :
          \/ \E lv \in LogLevel : Log(t, lv)
          \/ \E item \in load.items : Stream(t, item)
          \/ Finish(t) \/ Output(t) \/ Flush(t) \/ Abort(t)
     \/ \E lv \in LogLevel : setLogLevel(lv)
     \/ setOutput
     \/ Async(BackStep)
     \/ load.async /\ Async(Start)
     \/ Async(Stop) \/ Async(StopNotify) \/ Async(Join)

LogSpec == LogInit /\ [][LogNext]_allVars

(* As in AsyncLogging, while the process lives. *)
FairLogSpec ==
  /\ LogSpec
  /\ WF_allVars(alive /\ Async(BackStep))
  /\ WF_allVars(alive /\ Async(StopNotify \/ Join))

-----------------------------------------------------------------------------
(* The end of a line is dropped like anything else when buffer_ is full,   *)
(* its '\n' included, and the next line then follows on the same line of   *)
(* the file.  That happens to full buffers only: a line that reaches       *)
(* g_output ends with '\n' or has filled buffer_ up to its last byte, and  *)
(* no << has written past it.                                              *)
EndsOrFull ==
  \A t \in Writers : at[t] = "output" =>
    /\ Len(stream[t]) \in 1..(SIZE - 1)
    /\ stream[t][Len(stream[t])] = "\n" \/ Len(stream[t]) = SIZE - 1

(* What a reader of the log takes from the characters of a line. *)
Value(base, digit, s) ==
  LET val[i \in 0..Len(s)] == IF i = 0 THEN 0 ELSE base * val[i - 1] + digit[s[i]]
  IN val[Len(s)]

DecDigit == [c \in {zero(d) : d \in 0..9} |-> CHOOSE d \in 0..9 : zero(d) = c]
HexDigit == [c \in {digitsHex[d + 1] : d \in 0..15} |-> CHOOSE d \in 0..15 : digitsHex[d + 1] = c]

IntOf(s) == IF Head(s) = "-" THEN -Value(10, DecDigit, Tail(s)) ELSE Value(10, DecDigit, s)
HexOf(s) == Value(16, HexDigit, s)

HeaderLen(lv) == IF HasFunc(lv) THEN 5 ELSE 3

(* The characters between the header and the ending of a whole line. *)
BodyOf(t) == SubSeq(stream[t], HeaderLen(level[t]) + 1, Len(stream[t]) - Len(Ending))

(* A number that formatInteger or convertHex wrote reads back as the       *)
(* number that was logged, the least one of its type included (whose       *)
(* negation does not exist), without leading zeros; and the file shows     *)
(* without its directories.                                                *)
NumbersReadBack ==
  \A t \in Writers : at[t] = "output" /\ whole[t] /\ Len(said[t]) = 1 =>
    LET item == said[t][1]
        body == BodyOf(t)
    IN /\ item.kind = "int" =>
            /\ IntOf(body) = item.n
            /\ Len(body) > 1 => body[1] # "0"
       /\ item.kind = "pointer" => HexOf(SubSeq(body, 3, Len(body))) = item.n
       /\ "/" \notin Range(SubSeq(stream[t], 1 + Len(stream[t]) - Len(Ending), Len(stream[t])))

(* When LOG_FATAL aborts, its line is out of stdio's buffer, and so is     *)
(* every line of any thread that was given to fwrite before it.  A line    *)
(* given to AsyncLogging has no such promise: g_flush does not reach it.   *)
FatalLineShown ==
  \A t \in Writers : at[t] = "abort" => \A u \in Writers : place[u] <= place[t] => place[u] <= shown

(* A line given to AsyncLogging is in the file and flushed in the end,     *)
(* without a full buffer to push it there, unless stop() is called first   *)
(* or the process aborts.                                                  *)
EveryLineFlushed ==
  \A n \in 1..MaxLines :
    lines >= n ~> n \in Range(SubSeq(written, 1, flushed)) \/ ~running_ \/ ~alive

(* stop() returns, also when its notify_one comes between the test of      *)
(* running_ and wait_for and wakes nobody.                                 *)
StopReturns == owner = "notify" ~> owner = "stopped" \/ ~alive
=============================================================================
