-------------------------- MODULE MCRequestParser --------------------------
(* Instances of RequestParser for TLC: a few header blocks, right and wrong, *)
(* before bodies with and without newlines.                                  *)
EXTENDS RequestParser

Compact == <<"open", "fields", "more", "close">>
OneNewline == <<"open", "fields", "nl", "more", "close">>
Styled == <<"open", "nl", "fields", "nl", "more", "nl", "close", "nl">>

Make(line, heads, length, body) ==
  [first |-> line, heads |-> heads, length |-> length, body |-> body]

Good(bodies) ==
  {Make("post", heads, Size(body), body) :
     heads \in {<<"length">>, <<"length", "host">>, <<"agent", "length", "host">>},
     body \in bodies}

Bad ==
  {Make("post", heads, 4, Compact) :
     heads \in {<<>>, <<"foreign", "length">>, <<"length", "host", "host">>,
               <<"host", "agent", "accept", "host", "length">>}}
  \cup {Make("post", <<"length">>, n, body) :
          n \in {-4, 0, 3, 5, NotANumber}, body \in {Compact, Styled}}
  \cup {Make("get", <<"length">>, 4, Compact),
        Make("post", <<"length">>, 4, <<"open", "more", "more", "close">>),
        Make("post", <<"length">>, 3, <<"open", "fields", "more">>)}

AllRequests == Good({Compact, OneNewline, Styled}) \cup Bad
GoodRequests == Good({Compact, OneNewline, Styled})
=============================================================================
