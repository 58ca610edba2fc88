---------------------------- MODULE MCMapReduce ----------------------------
(* Small instances of MapReduce for TLC.                                   *)
EXTENDS MapReduce, TLC

CONSTANTS c1, c2

MCTokens == c1 :> <<"Sing", "muse,", "sing">> @@ c2 :> <<"--", "Muse">>
MCWord == "Sing" :> "sing" @@ "sing" :> "sing" @@ "muse," :> "muse"
          @@ "Muse" :> "muse" @@ "--" :> Empty
MCHash == "sing" :> 7 @@ "muse" :> 4
OneToken == c1 :> <<"sing">>

Opt(flag, value) == [flag |-> flag, value |-> value]
Line(key, value) == [key |-> key, value |-> value]

Config(mappers, reducers) ==
    <<Line("mapper", "count"), Line("reducer", "sum"), Line("num-mappers", mappers),
      Line("num-reducers", reducers), Line("input-path", "in"),
      Line("intermediate-path", "mid"), Line("output-path", "out")>>
Files == "two" :> Config(2, 1) @@ "one" :> Config(1, 1)
         @@ "none" :> Config(0, 1) @@ "many" :> Config(33, 1)
         @@ "word" :> Config(1, Malformed) @@ "cut" :> Tail(Config(1, 1))
         @@ "twice" :> Append(Config(1, 1), Line("mapper", "count"))
         @@ "other" :> Append(Config(1, 1), Line("user", "in"))
         @@ "away" :> [Config(1, 1) EXCEPT ![7].value = "away"]
         @@ "data" :> [Config(1, 1) EXCEPT ![1].value = "in"]

\* A command line, with more options after the three that must be there.
Mr(config, more) ==
    [options |-> <<Opt("mapper", "mrm"), Opt("reducer", "mrr"), Opt("config", config)>> \o more,
     files |-> Files, free |-> 2000..2001, port |-> 2001]

MCInvocations ==
    {Mr(f, <<>>) : f \in (DOMAIN Files \ {"one"}) \cup {"nowhere", Empty}}
    \cup {Mr("two", <<Opt("map-only", Empty), Opt("port", 2000)>>),
          Mr("one", <<Opt("quiet", Empty), Opt("port", 3000)>>),
          Mr("one", <<Opt("port", Malformed), Opt("port", 2000)>>),
          Mr("one", <<Opt("mapper", "mrm")>>), Mr("one", <<Opt("word", "again")>>),
          [Mr("one", <<>>) EXCEPT !.options[2].value = Empty],
          [Mr("one", <<>>) EXCEPT !.options[1].value = "in"]}
OneInvocation == {Mr("one", <<>>)}
=============================================================================
