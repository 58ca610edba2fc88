------------------------------ MODULE Messages ------------------------------
(***************************************************************************)
(* The HTTP messages of assign5 (HTTPHeader, HTTPPayload, HTTPRequest,     *)
(* HTTPResponse) as operators on streams, and what becomes of one exchange *)
(* on its way from the client to the origin server and back: serviceRequest*)
(* and forwardRequestToProxy as a sequence of reads and prints, where      *)
(* module Proxy has their locks and files.                                 *)
(*                                                                         *)
(* A stream is a sequence of units, tuples that begin with what the unit   *)
(* is: a request or status line, a field line, a continuation line, an     *)
(* empty line, the size line of a chunk, or a byte.  The CR LF behind a    *)
(* chunk is an empty line, and counts as one byte.  A value is a sequence  *)
(* of words.  std::map's order is any fixed order of the names.            *)
(***************************************************************************)
EXTENDS Integers, Sequences, SequencesExt, Folds

CONSTANTS Exchanges,    \* what client and origin say: see Init
          Lower,        \* toLowerCase() of a name
          Numerals,     \* the words that are numbers
          Ages,         \* the words max-age=<n>
          Blocked,      \* servers a line of blocked-domains.txt matches
          ClientIP, MaxAge

Refusals == {"private", "no-cache", "no-store"}

ASSUME MessagesAssumption ==
    /\ \A n \in DOMAIN Lower : Lower[n] \in DOMAIN Lower /\ Lower[Lower[n]] = Lower[n]
    /\ \A w \in DOMAIN Numerals : Numerals[w] \in Nat
    /\ \A w \in DOMAIN Ages : Ages[w] \in Nat

VARIABLES exchange,  \* never changes
          pc,
          request,   \* as the origin server is to be sent it
          response,
          toOrigin, toClient,  \* streams
          file,      \* content of the cache entry
          stored     \* the response that was read from it

vars == <<exchange, pc, request, response, toOrigin, toClient, file, stored>>

None == [none |-> TRUE]
Blank == <<"blank">>
Nul == <<"byte", "nul">>
Field(name, words) == <<"field", name, words>>
More(words) == <<"more", words>>
Size(n) == <<"size", n>>

-----------------------------------------------------------------------------
(* HTTPHeader: a function from names to values.                            *)

addHeader(h, name, value) ==
    [n \in DOMAIN h \cup {Lower[name]} |-> IF n = Lower[name] THEN value ELSE h[n]]
containsName(h, name) == Lower[name] \in DOMAIN h
getValueAsString(h, name) == IF containsName(h, name) THEN h[Lower[name]] ELSE <<>>
getValueAsNumber(h, name) ==
    LET words == getValueAsString(h, name)
    IN IF Len(words) = 1 /\ words[1] \in DOMAIN Numerals THEN Numerals[words[1]] ELSE 0
extendHeader(h, name, value) == addHeader(h, name, getValueAsString(h, name) \o value)

\* A header ends with an empty line or with the stream.
HeaderEnd(s) == LET k == SelectInSeq(s, LAMBDA u : u = Blank)
                IN IF k = 0 THEN Len(s) + 1 ELSE k
HeaderLines(s) == SubSeq(s, 2, HeaderEnd(s) - 1)
Behind(s) == SubSeq(s, HeaderEnd(s) + 1, Len(s))

\* Mutant: a continuation line replaces what it continues.
AddLineAnew(acc, line) ==
    IF line[1] = "more"
    THEN [acc EXCEPT !.headers = addHeader(@, acc.name, line[2])]
    ELSE [name |-> line[2], headers |-> addHeader(acc.headers, line[2], line[3])]

\* acc.name is the name of the last field line.
AddLine(acc, line) ==
    IF line[1] = "more"
    THEN [acc EXCEPT !.headers = extendHeader(@, acc.name, line[2])]
    ELSE [name |-> line[2], headers |-> addHeader(acc.headers, line[2], line[3])]

ingestHeader(s) ==
    FoldLeft(AddLine, [name |-> "", headers |-> [n \in {} |-> <<>>]], HeaderLines(s)).headers

printHeader(h) ==
    LET names == SetToSeq(DOMAIN h)
    IN [k \in DOMAIN names |-> Field(names[k], h[names[k]])]

-----------------------------------------------------------------------------
(* HTTPPayload.                                                            *)

isChunkedPayload(h) == getValueAsString(h, "transfer-encoding") = <<"chunked">>

\* read() of n bytes into a vector of as many: zeroes for those that are missing.
ReadBytes(s, n) == [k \in 1..n |-> IF k <= Len(s) THEN s[k] ELSE Nul]

\* Mutant: the CR LF behind a chunk is not read with it.
ingestChunkedPayloadShort(s) ==
    LET LineAt(k) == IF k <= Len(s) THEN s[k] ELSE Blank
        SizeAt(k) == IF LineAt(k)[1] = "size" THEN LineAt(k)[2] ELSE 0
        from[k \in Nat] ==
            IF SizeAt(k) = 0 THEN <<LineAt(k)>>
            ELSE <<LineAt(k)>> \o ReadBytes(SubSeq(s, k + 1, Len(s)), SizeAt(k))
                   \o from[k + SizeAt(k) + 1]
    IN Append(from[1], Blank)

\* Every chunk is kept with its size line and the CR LF behind it.  A size that
\* cannot be read, as at the end of the stream, is 0; what follows the size 0
\* is not read.
ingestChunkedPayload(s) ==
    LET LineAt(k) == IF k <= Len(s) THEN s[k] ELSE Blank
        SizeAt(k) == IF LineAt(k)[1] = "size" THEN LineAt(k)[2] ELSE 0
        from[k \in Nat] ==
            IF SizeAt(k) = 0 THEN <<LineAt(k)>>
            ELSE <<LineAt(k)>> \o ReadBytes(SubSeq(s, k + 1, Len(s)), SizeAt(k) + 1)
                   \o from[k + SizeAt(k) + 2]
    IN Append(from[1], Blank)

\* Without either header there is no payload.
ingestPayload(h, s) ==
    IF isChunkedPayload(h) THEN ingestChunkedPayload(s)
    ELSE ReadBytes(s, getValueAsNumber(h, "content-length"))

\* Stream s, which stays open, has as much behind its header as that reads.
Arrives(h, s) ==
    IF isChunkedPayload(h) THEN Size(0) \in ToSet(Behind(s))
    ELSE getValueAsNumber(h, "content-length") <= Len(Behind(s))

-----------------------------------------------------------------------------
(* HTTPRequest.                                                            *)

\* What erase() leaves of a name that did not begin with http:// is no name.
Garbled == "garbled"
ParseURL(url) ==
    IF ~url.http THEN [server |-> Garbled, port |-> 80, path |-> Garbled]
    ELSE [server |-> url.server,
          port |-> IF url.port = 0 THEN 80 ELSE url.port % 65536,
          path |-> IF url.path = "" THEN "/" ELSE url.path]

ingestRequestLine(s) ==
    [method |-> s[1][2], at |-> ParseURL(s[1][3]),
     header |-> [n \in {} |-> <<>>], payload |-> <<>>]

addRequestEntity(r) ==
    LET h == addHeader(r.header, "x-forwarded-proto", <<"http">>)
    IN [r EXCEPT !.header =
          addHeader(h, "x-forwarded-for",
                    getValueAsString(h, "x-forwarded-for") \o <<ClientIP>>)]

printRequest(r) ==
    <<<<"request", r.method, r.at.path>>>> \o printHeader(r.header) \o <<Blank>> \o r.payload

-----------------------------------------------------------------------------
(* HTTPResponse.                                                           *)

ingestResponse(s) ==
    LET h == ingestHeader(s)
    IN [code |-> s[1][2], header |-> h, payload |-> ingestPayload(h, Behind(s))]

setPayload(r, bytes) ==
    [r EXCEPT !.payload = bytes,
              !.header = addHeader(@, "Content-Length",
                           <<CHOOSE w \in DOMAIN Numerals : Numerals[w] = Len(bytes)>>)]

getTTL(r) ==
    LET words == getValueAsString(r.header, "Cache-Control")
        k == SelectInSeq(words, LAMBDA w : w \in DOMAIN Ages)
    IN IF k = 0 THEN 0 ELSE Ages[words[k]]

\* Mutant: an age is enough.
permitsAnyAge(r) == containsName(r.header, "Cache-Control") /\ getTTL(r) > 0

permitsCaching(r) ==
    /\ containsName(r.header, "Cache-Control")
    /\ ToSet(getValueAsString(r.header, "Cache-Control")) \cap Refusals = {}
    /\ getTTL(r) > 0

shouldCache(req, r) ==
    MaxAge # 0 /\ req.method = "GET" /\ r.code = 200 /\ permitsCaching(r)

printResponse(r) ==
    <<<<"status", r.code>>>> \o printHeader(r.header) \o <<Blank>> \o r.payload

-----------------------------------------------------------------------------
(* One exchange.  exchange.request and exchange.response are the streams   *)
(* of the client and of the origin server; kept says whether the origin    *)
(* keeps the connection open behind its response.                          *)

Init ==
    /\ exchange \in Exchanges
    /\ pc = "line"
    /\ request = None /\ response = None /\ stored = None
    /\ toOrigin = <<>> /\ toClient = <<>> /\ file = <<>>

RequestLine ==
    /\ pc = "line"
    /\ request' = ingestRequestLine(exchange.request)
    /\ pc' = "blacklist"
    /\ UNCHANGED <<exchange, response, toOrigin, toClient, file, stored>>

serverIsAllowed(server) == server \notin Blocked

Forbid ==
    /\ pc = "blacklist" /\ ~serverIsAllowed(request.at.server)
    /\ response' = setPayload([code |-> 403, header |-> [n \in {} |-> <<>>], payload |-> <<>>],
                              <<<<"byte", "Forbidden Content">>>>)
    /\ toClient' = printResponse(response')
    /\ pc' = "done"
    /\ UNCHANGED <<exchange, request, toOrigin, file, stored>>

\* The copy that is forwarded is made before the payload of a POST is read, so
\* all that payload can do is to be waited for.  The cache has no entry.
IngestRequest ==
    /\ pc = "blacklist" /\ serverIsAllowed(request.at.server)
    /\ request' = addRequestEntity([request EXCEPT !.header = ingestHeader(exchange.request)])
    /\ request.method = "POST" => Arrives(request'.header, exchange.request)
    /\ pc' = "forward"
    /\ UNCHANGED <<exchange, response, toOrigin, toClient, file, stored>>

Forward ==
    /\ pc = "forward"
    /\ toOrigin' = printRequest(request)
    /\ pc' = "answer"
    /\ UNCHANGED <<exchange, request, response, toClient, file, stored>>

\* Blocks while bytes that were announced may still come.
Answer ==
    /\ pc = "answer"
    /\ exchange.kept => Arrives(ingestHeader(exchange.response), exchange.response)
    /\ response' = ingestResponse(exchange.response)
    /\ pc' = "store"
    /\ UNCHANGED <<exchange, request, toOrigin, toClient, file, stored>>

Store ==
    /\ pc = "store"
    /\ file' = IF shouldCache(request, response) THEN printResponse(response) ELSE <<>>
    /\ pc' = "reply"
    /\ UNCHANGED <<exchange, request, response, toOrigin, toClient, stored>>

Reply ==
    /\ pc = "reply"
    /\ toClient' = printResponse(response)
    /\ pc' = "replied"
    /\ UNCHANGED <<exchange, request, response, toOrigin, file, stored>>

\* The next request for the same finds the entry.
Rehydrate ==
    /\ pc = "replied" /\ file # <<>>
    /\ stored' = ingestResponse(file)
    /\ pc' = "done"
    /\ UNCHANGED <<exchange, request, response, toOrigin, toClient, file>>

Next == \/ RequestLine \/ Forbid \/ IngestRequest \/ Forward \/ Answer \/ Store
        \/ Reply \/ Rehydrate
Spec == Init /\ [][Next]_vars

-----------------------------------------------------------------------------
(* Properties.                                                             *)

\* What a reader that keeps all lines takes the header of s for: the values of
\* a name, each with its continuation lines, in order.
Joined(lines, k) ==
    LET next == SelectInSubSeq(lines, k + 1, Len(lines), LAMBDA l : l[1] = "field")
        last == IF next = 0 THEN Len(lines) ELSE next - 1
    IN FlattenSeq([j \in 1..(last - k + 1) |->
                     IF j = 1 THEN lines[k][3] ELSE lines[k + j - 1][2]])
Values(s, n) ==
    LET lines == HeaderLines(s)
        Says(k) == lines[k][1] = "field" /\ Lower[lines[k][2]] = n
        places == SelectSeq([k \in DOMAIN lines |-> k], Says)
    IN [j \in DOMAIN places |-> Joined(lines, places[j])]
LastValue(s, n) == IF Values(s, n) = <<>> THEN <<>> ELSE <<Last(Values(s, n))>>
Names == {Lower[n] : n \in DOMAIN Lower}
Forwarded == {"x-forwarded-for", "x-forwarded-proto"}

\* The origin server is asked what the client has asked (operator<< of the
\* request that ingestRequestLine, ingestHeader and addRequestEntity have
\* built): the server and port of the URL, the method and path, of every name the last value, whatever its
\* case and the lines it was spread over, and the client's address behind
\* those of the proxies before.  It is never sent a payload.
ForwardedAsAsked == LET url == exchange.request[1][3] IN toOrigin # <<>> /\ url.http =>
    /\ request.at.server = url.server
    /\ request.at.port = IF url.port = 0 THEN 80 ELSE url.port
    /\ toOrigin[1][2] = exchange.request[1][2]
    /\ toOrigin[1][3] = IF url.path = "" THEN "/" ELSE url.path
    /\ \A n \in Names \ Forwarded : Values(toOrigin, n) = LastValue(exchange.request, n)
    /\ Values(toOrigin, "x-forwarded-for")
          = <<FlattenSeq(LastValue(exchange.request, "x-forwarded-for")) \o <<ClientIP>>>>
    /\ Behind(toOrigin) = <<>>

\* The client is answered what the origin server has answered (ingestHeader,
\* ingestPayload and operator<<): the code, of every name the last value, and
\* the payload if the server has sent all that it announced, in which case a
\* chunked one loses only what is behind its last chunk; one that ends with
\* the connection is lost.
AnsweredAsSent == toClient # <<>> /\ pc # "done" => LET sent == exchange.response IN
    /\ toClient[1] = sent[1]
    /\ \A n \in Names : Values(toClient, n) = LastValue(sent, n)
    /\ Arrives(ingestHeader(sent), sent) =>
         IF LastValue(sent, "transfer-encoding") = <<<<"chunked">>>>
         THEN \E k \in DOMAIN Behind(sent) :
                /\ Behind(sent)[k] = Size(0)
                /\ Behind(toClient) = SubSeq(Behind(sent), 1, k) \o <<Blank>>
         ELSE /\ IsPrefix(Behind(toClient), Behind(sent))
              /\ LastValue(sent, "content-length") # <<>>
                   => Len(Behind(toClient)) = getValueAsNumber(response.header, "content-length")

\* The file in the cache is read as the response it was written from, whole
\* or cut off by the origin server (cacheEntry, containsCacheEntry), and it is
\* there only if the last Cache-Control line allows it.
StoredIsTheAnswer == pc = "done" /\ stored # None =>
    /\ stored = response
    /\ \A v \in ToSet(LastValue(exchange.response, "cache-control")) :
          ToSet(v) \cap Refusals = {}
=============================================================================
