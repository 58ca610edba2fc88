----------------------------- MODULE MCMessages -----------------------------
(* Messages of a few lines for Messages.                                   *)
EXTENDS Messages, TLC

MCLower == [n \in {"host", "cookie", "x-forwarded-for", "x-forwarded-proto",
                   "content-length", "transfer-encoding", "cache-control", ""} |-> n]
           @@ ("Host" :> "host") @@ ("Cookie" :> "cookie")
           @@ ("Content-Length" :> "content-length")
           @@ ("Cache-Control" :> "cache-control")
MCNumerals == ("0" :> 0) @@ ("1" :> 1) @@ ("2" :> 2)
MCAges == ("max-age=0" :> 0) @@ ("max-age=60" :> 60)

Url(http, server, port, path) == [http |-> http, server |-> server, port |-> port, path |-> path]
Urls == {Url(h, s, p, t) : h \in BOOLEAN, s \in {"bad.org", "good.org"},
                           p \in {0, 8080}, t \in {"", "/page"}}
Plain == Url(TRUE, "good.org", 0, "/page")

\* Up to three lines; the first is not a continuation.
RequestFields == {Field("Host", <<"good.org">>), Field("Cookie", <<"c1">>),
                  Field("cookie", <<"c2", "c3">>), Field("x-forwarded-for", <<"ip0">>),
                  More(<<"more">>)}
Headers(fields) == {h \in BoundedSeq(fields, 3) : h # <<>> => h[1][1] = "field"}

B(k) == <<"byte", ToString(k)>>
Posted == <<Field("Content-Length", <<"2">>), Blank, B(1), B(2)>>
Requests ==
    {<<<<"request", m, u>>, Blank>> : m \in {"GET", "POST"}, u \in Urls}
    \cup {<<<<"request", "GET", Plain>>>> \o h \o <<Blank>> : h \in Headers(RequestFields)}
    \cup {<<<<"request", "POST", Plain>>>> \o Posted,
          <<<<"request", "POST", Plain>>>> \o SubSeq(Posted, 1, 3),
          <<<<"request", "GET", Plain>>, Field("Host", <<"good.org">>)>>}

CacheFields == {Field("Cache-Control", <<"max-age=60">>),
                Field("cache-control", <<"private", "max-age=60">>),
                Field("Cache-Control", <<"max-age=0">>),
                Field("Cookie", <<"c1">>), More(<<"no-store">>)}
Bodies == {<<>>,
           <<Field("Content-Length", <<"2">>), Blank, B(1), B(2)>>,
           <<Field("Content-Length", <<"2">>), Blank, B(1), B(2), B(3)>>,
           <<Field("Content-Length", <<"0">>), Blank>>,
           <<Field("Content-Length", <<"2">>), Blank>>,
           <<Blank, B(1)>>}
Chunked == <<Field("transfer-encoding", <<"chunked">>), Blank, Size(2), B(1), B(2), Blank,
             Size(1), B(3), Blank, Size(0), Field("Cookie", <<"c1">>), Blank>>
Ends == Bodies \cup {SubSeq(Chunked, 1, k) : k \in 1..Len(Chunked)}
Responses == {<<<<"status", c>>>> \o h \o e :
                c \in {200, 404}, h \in Headers(CacheFields), e \in Ends}

OneResponse == <<<<"status", 200>>, Field("Cache-Control", <<"max-age=60">>)>> \o Chunked
OneRequest == <<<<"request", "GET", Plain>>, Field("Host", <<"good.org">>), Blank>>
MCExchanges ==
    [request : Requests, response : {OneResponse}, kept : {FALSE}]
    \cup [request : {OneRequest}, response : Responses, kept : BOOLEAN]
=============================================================================
