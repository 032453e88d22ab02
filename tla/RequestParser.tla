--------------------------- MODULE RequestParser ---------------------------
(***************************************************************************)
(* http::server3::request_parser: one HTTP request arrives in reads of any *)
(* size, and parser() answers each read with a tribool.  The text is a     *)
(* sequence of tokens: a header line without its end, or one character of  *)
(* the rest.  A read may end after any token.                              *)
(***************************************************************************)
EXTENDS Integers, SequencesExt

CONSTANTS
  Known,        \* httpTokens without "Content-Length: "
  Foreign,      \* header lines that are not in httpTokens
  HeaderLines,  \* lines of a request that may hold header fields
  NotANumber,   \* what stoi() throws at
  LineLength,   \* bound: characters of a header line
  SizeRange,    \* the values of a size_t: 0 .. SizeRange - 1
  Requests      \* bound: the requests that clients send

\* A request: its first line, its header lines, the value after
\* "Content-Length: " and its body.
RequestLine == "post"
LengthLine == "length"
Tokens == Known \cup {LengthLine}
Newline == "nl"
Return == "cr"                      \* the last character of a line's end
Blank == {Newline, Return}

\* A header line is none of the characters that a body is made of; a number
\* that does not fit is one that stoi() throws at.
ASSUME ParserAssumption ==
  /\ HeaderLines \in Nat \ {0} /\ LineLength \in Nat \ {0} /\ SizeRange \in Nat \ {0}
  /\ NotANumber \notin Int
  /\ (Tokens \cup Foreign) \cap ({"open"} \cup Blank) = {}
  /\ \A r \in Requests :
       /\ r.first \notin Tokens \cup Foreign \cup {"open"} \cup Blank
       /\ r.heads \in Seq(Tokens \cup Foreign)
       /\ r.length = NotANumber \/ r.length \in -SizeRange .. (SizeRange - 1)
       /\ r.body \in Seq(ToSet(r.body) \ (Tokens \cup Foreign))

Wire(r) ==
  <<r.first, Newline>>
    \o FlattenSeq([i \in DOMAIN r.heads |-> <<r.heads[i], Newline>>])
    \o <<Return, Newline>> \o r.body

VARIABLES
  request,        \* what the client sends
  read,           \* tokens read so far
  first,          \* tokens of the first read
  readHeader, contentLength, readAmount, jsonRequest,
  result          \* the parser's last answer

vars == <<request, read, first, readHeader, contentLength, readAmount,
          jsonRequest, result>>

Without(text, tokens) ==
  FoldLeft(LAMBDA kept, t : IF t \in tokens THEN kept ELSE Append(kept, t), <<>>, text)
NonBlank(text) == Without(text, Blank)

Size(text) ==
  LET characters == Len(Without(text, Tokens \cup Foreign))
  IN  characters + LineLength * (Len(text) - characters)

\* std::getline(): the lines of a text, their ends dropped; no line after the
\* last end.
Split(text) ==
  FoldLeft(LAMBDA lines, t : IF t = Newline THEN Append(lines, <<>>)
                             ELSE Append(Front(lines), Append(Last(lines), t)),
           << <<>> >>, text)
Lines(text) ==
  IF Last(Split(text)) = <<>> THEN Front(Split(text)) ELSE Split(text)

\* The header fields among the lines, each once: a std::map.
Fields(lines) ==
  Tokens \cap UNION {ToSet(lines[i]) : i \in {j \in DOMAIN lines : 1 < j /\ j <= HeaderLines}}

\* mutant: the lines after the last one for header fields are dropped
BodyLimited(lines) ==
  FlattenSeq(SubSeq(lines, Cardinality(Fields(lines)) + 2, Min({HeaderLines, Len(lines)})))

\* Every line after as many lines as there are fields counts as the body.
Body(lines) ==
  FlattenSeq(SubSeq(lines, Cardinality(Fields(lines)) + 2, Len(lines)))

\* mutant: the width of the result is forgotten
Unwrapped(n) == n

\* stoi() into a size_t
Wrapped(n) == n % SizeRange

\* Json::Reader reads one object, whatever follows it, and getline() or the
\* network may have left blanks around its parts.  The request's fields are
\* one token of it.
Parsed(json) ==
  LET text == NonBlank(json)
  IN  /\ text # <<>> /\ Head(text) = "open"
      /\ "close" \in ToSet(text) /\ "fields" \in ToSet(text)

Rebuilt(json) == IF Parsed(json) THEN "true" ELSE "false"

\* A malformed header ends the request.
Refused(lines) ==
  \/ Head(lines) # <<RequestLine>>
  \/ LengthLine \notin Fields(lines)
  \/ request.length = NotANumber

\* The first read is taken apart line by line.
FirstRead(text) ==
  LET lines == Lines(text)
  IN  /\ readHeader
      /\ first' = Len(text)
      /\ \/ /\ Refused(lines)
            /\ result' = "false"
            /\ UNCHANGED <<readHeader, contentLength, readAmount, jsonRequest>>
         \/ /\ ~Refused(lines)
            /\ readHeader' = FALSE
            /\ contentLength' = Wrapped(request.length)
            /\ readAmount' = readAmount + Size(Body(lines))
            /\ jsonRequest' = jsonRequest \o Body(lines)
            /\ result' = IF contentLength' > readAmount' THEN "indeterminate"
                         ELSE Rebuilt(jsonRequest')

\* mutant: later reads are not counted
LaterReadUncounted(text) ==
  /\ ~readHeader
  /\ jsonRequest' = jsonRequest \o text
  /\ result' = IF readAmount < contentLength THEN "indeterminate"
               ELSE Rebuilt(jsonRequest')
  /\ UNCHANGED <<first, readHeader, contentLength, readAmount>>

\* Later reads are taken as they come.
LaterRead(text) ==
  /\ ~readHeader
  /\ readAmount' = readAmount + Size(text)
  /\ jsonRequest' = jsonRequest \o text
  /\ result' = IF readAmount' < contentLength THEN "indeterminate"
               ELSE Rebuilt(jsonRequest')
  /\ UNCHANGED <<first, readHeader, contentLength>>

\* handle_read() reads again only after an indeterminate answer.
Read(n) ==
  LET text == SubSeq(Wire(request), read + 1, read + n)
  IN  /\ result = "indeterminate"
      /\ read' = read + n
      /\ FirstRead(text) \/ LaterRead(text)
      /\ UNCHANGED request

Init ==
  /\ request \in Requests
  /\ read = 0 /\ first = 0
  /\ readHeader = TRUE
  /\ contentLength = 0 /\ readAmount = 0
  /\ jsonRequest = <<>>
  /\ result = "indeterminate"

Next == \E n \in 1 .. Len(Wire(request)) - read : Read(n)

Spec == Init /\ [][Next]_vars

-----------------------------------------------------------------------------
\* Every variable keeps its type; a length is a size_t, and no more is counted
\* than was read.
TypeOK ==
  /\ request \in Requests
  /\ read \in 0 .. Len(Wire(request)) /\ first \in 0 .. read
  /\ readHeader \in BOOLEAN
  /\ contentLength \in 0 .. SizeRange - 1
  /\ readAmount \in 0 .. Size(SubSeq(Wire(request), 1, read))
  /\ ToSet(jsonRequest) \subseteq ToSet(Wire(request))
  /\ result \in {"indeterminate", "true", "false"}

\* A request that parser() means to accept.
WellFormed(r) ==
  /\ r.first = RequestLine
  /\ LengthLine \in ToSet(r.heads) /\ ToSet(r.heads) \subseteq Tokens
  /\ IsInjective(r.heads) /\ Len(r.heads) < HeaderLines
  /\ r.length = Size(r.body) /\ Parsed(r.body)

HeaderEnd(r) == Len(Wire(r)) - Len(r.body)
AllRead == read = Len(Wire(request))
BodyNewlines(r) == Len(r.body) - Len(Without(r.body, {Newline}))

\* However the reads cut the request, and whatever its header says, a request
\* is taken for complete only with the text of the body as far as it was read:
\* no part lost, out of place or from the header (request_parser.cpp:105-128).
TrueIsBody ==
  result = "true" =>
    NonBlank(jsonRequest) = NonBlank(SubSeq(Wire(request), HeaderEnd(request) + 1, read))

\* A good request in one read is accepted although the empty line is counted
\* with the body, and newlines are not: the two even out as long as the body
\* has one newline at most.  One without newlines in its body, its header in
\* the first read, is never left without an answer, and refused in one case
\* only: when a read ends one character early (request_parser.cpp:105-138).
GoodAnswered ==
  WellFormed(request) =>
    /\ BodyNewlines(request) <= 1 /\ first = Len(Wire(request)) => result = "true"
    /\ BodyNewlines(request) = 0 /\ first >= HeaderEnd(request) =>
         /\ AllRead => result # "indeterminate"
         /\ result = "false" => read = Len(Wire(request)) - 1

\* "The tribool return value is true when a complete request has been parsed,
\* false if the data is invalid, indeterminate when more data is required."
\* (request_parser.h:35-37): of a good request that has come in part the
\* answer is indeterminate, and true once all of it has come.
TriboolMeans ==
  WellFormed(request) =>
    result = IF AllRead THEN "true" ELSE "indeterminate"
=============================================================================
