--------------------------- MODULE Configuration ---------------------------
(***************************************************************************)
(* Config: the constructor that srv_main() uses and readConfigFile(), as a *)
(* function from the lines of the file to the settings.  A line is told    *)
(* apart by what stands before and behind its "=".                         *)
(***************************************************************************)
EXTENDS Integers, SequencesExt

\* The settings that a line may name, and the two kinds with a check.
Booleans == {"Debug", "Daemon"}
Numbers == {"Port", "HTTPThreads"}
Settings ==
  Booleans \cup Numbers
    \cup {"SQLPort", "ListenAddress", "LogFile", "SQLServerAddress",
          "SQLUsername", "SQLPassword"}

\* The text of a line that is empty, and the texts that stoi() converts.
EmptyLine == [token |-> "no text", val |-> ""]
NumeralOf(n) == CASE n = 0 -> "0" [] n = 1 -> "1" [] n = 2 -> "2" [] OTHER -> "many"
Numerals == {"0", "1", "2", "many"}

\* The constructor gives no value to httpThreads: it may have any.
Unset == "unset"
Default ==
  [s \in Settings |->
     CASE s = "Debug" -> "true" [] s = "Daemon" -> "false" [] s = "Port" -> "many"
       [] s = "HTTPThreads" -> Unset
       [] OTHER -> "default"]

Malformed(l) ==
  \/ l.token \notin Settings
  \/ l.token \in Booleans /\ l.val \notin {"true", "false"}

\* mutant: a malformed line is skipped
ReadLineSkipping(c, l) ==
  IF c.status # "reading" \/ l = EmptyLine \/ Malformed(l) THEN c
  ELSE IF l.token \in Numbers /\ l.val \notin Numerals
       THEN [c EXCEPT !.status = "thrown"]
       ELSE [c EXCEPT !.set[l.token] = l.val]

\* A malformed line throws a runtime_error, which ends the reading and is
\* caught; stoi() throws something else, which is not.
ReadLine(c, l) ==
  IF c.status # "reading" \/ l = EmptyLine THEN c
  ELSE CASE Malformed(l) -> [c EXCEPT !.status = "stopped"]
         [] l.token \in Numbers /\ l.val \notin Numerals -> [c EXCEPT !.status = "thrown"]
         [] OTHER -> [c EXCEPT !.set[l.token] = l.val]

\* A file that cannot be opened reads like one without lines.
ReadConfig(lines) ==
  FoldLeft(ReadLine, [set |-> Default, status |-> "reading"], lines)

-----------------------------------------------------------------------------
\* What a file means, said without reading it line by line: only what stands
\* before the first line that cannot be read counts, and of that the last line
\* for a setting.
Unreadable(l) ==
  l # EmptyLine /\ (Malformed(l) \/ (l.token \in Numbers /\ l.val \notin Numerals))
Counts(lines, i) == \A j \in 1 .. i : ~Unreadable(lines[j])
Meant(lines, s) ==
  LET at == {i \in DOMAIN lines : lines[i].token = s /\ Counts(lines, i)}
  IN  IF at = {} THEN Default[s] ELSE lines[Max(at)].val
Throws(lines) ==
  \E i \in DOMAIN lines :
    /\ Unreadable(lines[i]) /\ ~Malformed(lines[i])
    /\ \A j \in 1 .. (i - 1) : ~Unreadable(lines[j])
=============================================================================
