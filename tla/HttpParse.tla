----------------------------- MODULE HttpParse ------------------------------
(***************************************************************************)
(* parse-req of lib/com.ahungry.net.tcp.server.janet, which make-fn runs   *)
(* on the text the server has read.  A text is a sequence of words, line   *)
(* ends (CRLF), separators (": ") and spaces.                              *)
(***************************************************************************)
EXTENDS Naturals, Sequences, FiniteSets

CONSTANTS
  CRLF, Sep, Space,   \* "\r\n", ": " and " "
  Lower(_)            \* string/ascii-lower of a word

\* string/split: one piece more than there are delimiters
Cuts(delim, s) == {i \in DOMAIN s : s[i] = delim}
CutAt(cuts, k) == CHOOSE i \in cuts : Cardinality({j \in cuts : j <= i}) = k

Split(delim, s) ==
  LET cuts == Cuts(delim, s)
      n == Cardinality(cuts)
  IN [k \in 1 .. n + 1 |-> SubSeq(s, IF k = 1 THEN 1 ELSE CutAt(cuts, k - 1) + 1,
                                    IF k > n THEN Len(s) ELSE CutAt(cuts, k) - 1)]

LastOf(xs) == xs[Len(xs)]

ParseMethodUrl(line) ==
  LET xs == Split(Space, line)
  IN [method |-> xs[1], url |-> IF Len(xs) > 1 THEN xs[2] ELSE <<>>]

LowerAll(s) == [i \in DOMAIN s |-> Lower(s[i])]

HeaderName(line) == LowerAll(Split(Sep, line)[1])

\* put, for one line after the other: the last one with a name stays
ParseReqHeaders(xs) ==
  LET lines(k) == {i \in DOMAIN xs : HeaderName(xs[i]) = k}
      last(k) == CHOOSE i \in lines(k) : \A j \in lines(k) : j <= i
  IN [k \in {HeaderName(xs[i]) : i \in DOMAIN xs} |-> LastOf(Split(Sep, xs[last(k)]))]

\* variant: the line in front of the body is taken for a header
HeaderLinesAll(xs) == SubSeq(xs, 2, Len(xs) - 1)

\* array/slice xs 1 (- (length xs) 2)
HeaderLines(xs) == SubSeq(xs, 2, Len(xs) - 2)

ParseReq(req) ==
  LET xs == Split(CRLF, req)
      line == ParseMethodUrl(xs[1])
  IN [headers |-> ParseReqHeaders(HeaderLines(xs)),
      method |-> line.method, url |-> line.url,
      body |-> LastOf(xs)]
=============================================================================
