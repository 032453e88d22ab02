------------------------------ MODULE Exchange ------------------------------
(***************************************************************************)
(* One exchange on a connection: what the parser accepts becomes a call,   *)
(* request_handler::handle_request() tests it, verifies its user, asks     *)
(* SRV_DB or Config for one operation and builds the reply; what the       *)
(* parser refuses is answered by connection::handle_read() itself.  The    *)
(* SQL session may be lost between two steps and the pollers may store     *)
(* their lists; what the operations do is in the modules of their own.     *)
(***************************************************************************)
EXTENDS RequestParser

CONSTANTS
  Params        \* the parameters that clients send, each a text

\* Parameters are told apart by what empty() and stoi() make of them.
Empty == "empty"
Number == "number"

\* The lists that pollers store, and the operations of SRV_DB.
Lists == {"getrandomcontests", "gettopcontests"}
Operations ==
  {"createuser", "getmycontests", "getcontest", "createcontest", "updateimage",
   "addfriend", "removefriend", "getmyfriends", "getfriendrequests", "vote",
   "getimage"}
Ids == Operations \cup Lists \cup {"authenticate", "other"}

\* A request as the handler sees it: known says whether some account has the
\* name, password what the text is compared with its own password, the one
\* that is stored.
Calls ==
  {c \in [id : Ids, known : BOOLEAN, password : {"own", "empty", "other"},
          param : Params] : c.password = "own" => c.known}

ASSUME ExchangeAssumption == \A p \in Params : DOMAIN p = 1 .. 4

VARIABLES
  phase,        \* "read", "handle", "verify", "operate" or "sent"
  call,         \* the request_ of the connection
  session,      \* the SRV_DB of the connection: "none", "open" or "lost"
  stored,       \* the lists that some poller has stored in Config
  asked,        \* the operation that was asked for, and what it returned
  reply         \* the reply_ of the connection

handling == <<phase, call, session, stored, asked, reply>>
exchange == <<vars, handling>>

NoCall == [id |-> "other", known |-> FALSE, password |-> "other",
           param |-> [i \in 1 .. 4 |-> Empty]]
NotAsked == [id |-> "none", returned |-> <<>>]

-----------------------------------------------------------------------------
\* A reply: its status line, its content as the documents in it, and how many
\* of them the header Content-Length counts.
Reply(status, content) ==
  [status |-> status, content |-> content, length |-> Len(content)]

NoReply == Reply("none", <<>>)

Switch == {"1000", "1001", "1002", "1003", "1004", "1005", "1006", "1007",
           "1008", "1009", "1010", "1011", "1012", "1013"}

\* mutant: a code is forgotten in the switch
JsonStringShort(code) == IF code \in Switch \ {"1011"} THEN code ELSE "999"

\* json_replies::to_string(): every other code is an internal error.
JsonString(code) == IF code \in Switch THEN code ELSE "999"

\* stock_replies::to_string(): a page of its own for each status.
Page == "page"

StockReply(status) == Reply(status, <<Page>>)
JsonReply(code) == Reply("200", <<JsonString(code)>>)

\* mutant: the length is that of the content before the results
AppendedLate(rep, results) ==
  [Reply("200", rep.content \o results) EXCEPT !.length = Len(rep.content)]

\* The end of handle_request(): the results go behind what the reply holds.
Appended(rep, results) == Reply("200", rep.content \o results)

-----------------------------------------------------------------------------
\* The parameters that must not be empty and those that stoi() converts.
Required(id) ==
  CASE id \in {"createcontest", "vote", "getimage"} -> {1, 2}
    [] id = "updateimage" -> {2, 4}
    [] id \in {"createuser", "getcontest", "addfriend", "removefriend"} -> {1}
    [] OTHER -> {}

Converted(id) ==
  CASE id \in {"vote", "getimage"} -> {1, 2}
    [] id = "updateimage" -> {1, 3}
    [] id = "getcontest" -> {1}
    [] OTHER -> {}

Missing(c) == \E i \in Required(c.id) : c.param[i] = Empty
Unconverted(c) == \E i \in Converted(c.id) : c.param[i] # Number

\* What an operation returns: a code, or a document with rows.  "1002" for a
\* missing session is not among them: the handler has tested that there is one.
Returned(id) ==
  CASE id = "createuser" -> {"1003", "1005", "1006", "1008", "1013"}
    [] id = "updateimage" -> {"999", "1000", "1002", "1011", "1012", "1013"}
    [] id \in {"addfriend", "removefriend"} -> {"1000", "1003", "1013"}
    [] id = "vote" -> {"1001", "rows"}
    [] id \in {"getcontest", "getimage"} -> {"1003", "rows"}
    [] OTHER -> {"1003", "1013", "rows"}

\* What it returns when its first statement fails; SRV_DB still takes itself
\* for connected.
ReturnedLost(id) == Returned(id) \cap {"1001", "1002", "1003", "1013"}

\* How the handler answers an operation that throws.
Caught(id) ==
  CASE id = "createuser" -> StockReply("400")
    [] id \in {"getmycontests", "getmyfriends", "getfriendrequests"} -> JsonReply("1003")
    [] OTHER -> JsonReply("1013")

\* The status line of the bytes; codes of json_reply() have that of ok.
Stock == {"200", "201", "202", "204", "300", "301", "302", "304", "400", "401",
          "403", "404", "500", "501", "502", "503"}
StatusLine(status) ==
  CASE status \in Stock -> status
    [] status \in Switch -> "200"
    [] OTHER -> "500"

\* to_buffers(): what async_write() sends of a reply.
Buffers(rep) ==
  [status |-> StatusLine(rep.status), content |-> rep.content, length |-> rep.length]

Send(rep) ==
  /\ phase' = "sent"
  /\ reply' = Buffers(rep)
  /\ UNCHANGED <<vars, call, session, stored>>

Goto(label) ==
  /\ phase' = label
  /\ UNCHANGED <<vars, call, session, stored, asked, reply>>

-----------------------------------------------------------------------------
ReadMore == phase = "read" /\ Next /\ UNCHANGED handling

\* The parser is not asked again: what it holds is set back, so that exchanges
\* do not differ by how their requests were read.
Forget ==
  /\ request' = CHOOSE r \in Requests : TRUE
  /\ read' = 0 /\ first' = 0
  /\ readHeader' = TRUE
  /\ contentLength' = 0 /\ readAmount' = 0
  /\ jsonRequest' = <<>>
  /\ result' = "indeterminate"

\* handle_read() with the parser's answer.
Unauthorized ==
  /\ phase = "read" /\ result = "false"
  /\ Forget
  /\ phase' = "sent"
  /\ reply' = Buffers(StockReply("401"))
  /\ UNCHANGED <<call, session, stored, asked>>

Accept ==
  /\ phase = "read" /\ result = "true"
  /\ Forget
  /\ call' \in Calls
  /\ phase' = "handle"
  /\ UNCHANGED <<session, stored, asked, reply>>

Handle ==
  /\ phase = "handle"
  /\ \/ session = "none" /\ Send(StockReply("503")) /\ UNCHANGED asked
     \/ /\ session # "none" /\ call.id = "createuser"
        /\ \/ Missing(call) /\ Send(JsonReply("1004")) /\ UNCHANGED asked
           \/ ~Missing(call) /\ Goto("operate")
     \/ session # "none" /\ call.id # "createuser" /\ Goto("verify")

\* authenticateUser() compares the password with the one it has read, which is
\* an empty text when no account has the name; a statement that fails counts
\* as a wrong password.
PasswordRead == IF call.known THEN "own" ELSE "empty"
Authenticated == call.password = PasswordRead /\ session = "open"

\* mutant: the parameters are tested before the password
AnswerParamsFirst ==
  IF Missing(call) THEN "1004"
  ELSE CASE ~Authenticated -> "1010"
         [] Authenticated /\ call.id = "other" -> "1007"
         [] Authenticated /\ call.id = "authenticate" -> "1009"
         [] OTHER -> "1013"

\* The code that answers at once, unless the operation is asked for.
Answer ==
  IF ~Authenticated THEN "1010"
  ELSE CASE call.id = "authenticate" -> "1009"
         [] call.id = "other" -> "1007"
         [] Missing(call) -> "1004"
         [] OTHER -> "1013"

Asks == call.id \in Operations \cup Lists /\ ~Missing(call) /\ ~Unconverted(call)

\* mutant: a wrong password stops nothing but "authenticate"
VerifyLate ==
  /\ phase = "verify"
  /\ \/ Asks /\ Goto("operate")
     \/ ~Asks /\ Send(JsonReply(Answer)) /\ UNCHANGED asked

Verify ==
  /\ phase = "verify"
  /\ \/ Authenticated /\ Asks /\ Goto("operate")
     \/ ~(Authenticated /\ Asks) /\ Send(JsonReply(Answer)) /\ UNCHANGED asked

\* createUser() and updateImage() return a code for json_reply(), the others a
\* text that is appended.
Operate ==
  /\ phase = "operate" /\ call.id \in Operations
  /\ \/ \E code \in IF session = "open" THEN Returned(call.id) ELSE ReturnedLost(call.id) :
          /\ asked' = [id |-> call.id, returned |-> <<code>>]
          /\ \/ call.id = "createuser" /\ Send(Appended(JsonReply(code), <<>>))
             \/ call.id = "updateimage" /\ Send(JsonReply(code))
             \/ /\ call.id \notin {"createuser", "updateimage"}
                /\ Send(Appended(reply, <<code>>))
     \/ /\ asked' = [id |-> call.id, returned |-> <<>>]
        /\ Send(Caught(call.id))

\* Config holds an empty text until a poller stores a list.
GetList ==
  LET list == IF call.id \in stored THEN <<"rows">> ELSE <<>>
  IN  /\ phase = "operate" /\ call.id \in Lists
      /\ asked' = [id |-> call.id, returned |-> list]
      /\ Send(Appended(reply, list))

\* The session breaks, or a statement fails, during the exchange.
Lose ==
  /\ session = "open" /\ phase # "sent"
  /\ session' = "lost"
  /\ UNCHANGED <<vars, phase, call, stored, asked, reply>>

Store(list) ==
  /\ list \notin stored /\ phase # "sent"
  /\ stored' = stored \cup {list}
  /\ UNCHANGED <<vars, phase, call, session, asked, reply>>

ExchangeInit ==
  /\ Init
  /\ phase = "read"
  /\ call = NoCall
  /\ session \in {"none", "open"}
  /\ stored \in SUBSET Lists
  /\ asked = NotAsked
  /\ reply = NoReply

ExchangeNext ==
  \/ ReadMore \/ Unauthorized \/ Accept
  \/ Handle \/ Verify \/ Operate \/ GetList
  \/ Lose \/ \E list \in Lists : Store(list)

ExchangeSpec == ExchangeInit /\ [][ExchangeNext]_exchange

-----------------------------------------------------------------------------
\* Every variable keeps its type; the announced length is that of a text.
ExchangeTypeOK ==
  /\ TypeOK
  /\ phase \in {"read", "handle", "verify", "operate", "sent"}
  /\ call \in Calls \cup {NoCall}
  /\ session \in {"none", "open", "lost"}
  /\ stored \subseteq Lists
  /\ asked.id \in Operations \cup Lists \cup {"none"}
  /\ reply.length \in Nat

\* Whom authenticateUser() is to let through: the user with his own password;
\* and, as the code is, a name nobody has with an empty password.
LetThrough(c) ==
  \/ c.known /\ c.password = "own"
  \/ ~c.known /\ c.password = "empty"

\* Whatever is lost meanwhile, nothing but "createuser" is asked of SRV_DB or
\* Config without the user's own password, except for a name that nobody has
\* and an empty password (srv_db.cpp:196-206); nothing with a parameter missing
\* or not a number, and nothing for a request that is answered as refused
\* (request_handler.cpp:39-227).
ActsVerified ==
  asked # NotAsked =>
    /\ asked.id = call.id /\ (LetThrough(call) \/ call.id = "createuser")
    /\ ~Missing(call) /\ ~Unconverted(call)
    /\ reply.status \notin {"401", "503"}
    /\ reply.content # <<"1004">> /\ reply.content # <<"1010">>

\* A reply holds exactly one document and announces its length, except for a
\* list: as long as no poller has stored one, the client is sent an empty text
\* (request_handler.cpp:213-236, reply.cpp:309-334).
OneDocument ==
  phase = "sent" =>
    /\ reply.length = Len(reply.content)
    /\ Len(reply.content) = 1 \/ (reply.content = <<>> /\ call.id \in Lists \ stored)

\* The user with his own password is told "1010" only after the session was
\* lost, and so is a name nobody has with an empty password; every other one
\* is never told anything else once there is a session
\* (request_handler.cpp:47-56 and 224-227).
RefusedRightly ==
  phase = "sent" /\ call.id # "createuser" /\ reply.status = "200" =>
    /\ reply.content = <<"1010">> /\ LetThrough(call) => session = "lost"
    /\ ~LetThrough(call) => reply.content = <<"1010">>

\* The client is told what the operation returned; a code on its way through
\* the enumeration and the switch is not replaced by another
\* (request_handler.cpp:44-45 and 121, reply.cpp:271-305).
ReturnedIsTold ==
  asked # NotAsked /\ asked.returned # <<>> => reply.content = asked.returned
=============================================================================
