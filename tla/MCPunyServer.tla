---------------------------- MODULE MCPunyServer ----------------------------
(* Instances of PunyServer for TLC.                                          *)
EXTENDS PunyServer, SequencesExt, FiniteSets

CONSTANTS c1, c2, c3

Get == <<"h", "t">>
Post == <<"n", "r", "t", "b">>
Fenced == <<"q", "t">>
Zero == <<"z", "t">>

Mixed == [c \in Clients |-> IF c = c1 THEN Post ELSE IF c = c2 THEN Fenced ELSE Zero]
Gets == [c \in Clients |-> Get]

-----------------------------------------------------------------------------
(* parse-req on the requests of a small grammar: header names in either case, *)
(* values with a separator inside, bodies with line ends inside.               *)

H == INSTANCE HttpParse WITH
       CRLF <- "crlf", Sep <- ": ", Space <- " ", Lower <- LAMBDA w : IF w = "A" THEN "a" ELSE w

Names == {"A", "a", "b"}
HeaderValues == {<<"v">>, <<"w">>, <<"v", ": ", "w">>}
Headers == BoundedSeq(Names \X HeaderValues, 2)
Bodies == BoundedSeq({"x", ": ", "crlf"}, 3)

Text(hs, body) ==
  <<"POST", " ", "/", " ", "HTTP/1.1", "crlf">>
    \o FlattenSeq([i \in DOMAIN hs |-> <<hs[i][1], ": ">> \o hs[i][2] \o <<"crlf">>])
    \o <<"crlf">> \o body

SameName(v, w) == v = w \/ {v, w} = {"A", "a"}

\* parse-req finds the method and the URL; under every header name, whatever its
\* case, the value of its last line, if that has no ": " inside; and the body, if
\* it has no line end inside.  A body with line ends loses all but its last line.
\* (A fact about operators only, looked at in the initial state.)
ParsesRequests ==
  Init => \A hs \in Headers, body \in Bodies :
    LET r == H!ParseReq(Text(hs, body))
        ends == {i \in DOMAIN body : body[i] = "crlf"}
    IN /\ r.method = <<"POST">> /\ r.url = <<"/">>
       /\ ends = {} =>
            /\ r.body = body
            /\ \A i \in DOMAIN hs :
                 LET name == <<IF hs[i][1] = "A" THEN "a" ELSE hs[i][1]>>
                 IN /\ name \in DOMAIN r.headers
                    /\ (/\ Len(hs[i][2]) = 1
                        /\ \A j \in DOMAIN hs : SameName(hs[i][1], hs[j][1]) => j <= i)
                       => r.headers[name] = hs[i][2]
            /\ \A k \in DOMAIN r.headers : \E i \in DOMAIN hs : SameName(k[1], hs[i][1])
       /\ \A e \in ends : (\A f \in ends : f <= e) => r.body = SubSeq(body, e + 1, Len(body))
=============================================================================
