---------------------------- MODULE MCClientCalls ----------------------------
(***************************************************************************)
(* The instance of ClientCalls the run checks: one caller for each way of  *)
(* asking, with texts made of what means something to an encoding.         *)
(***************************************************************************)
EXTENDS ClientCalls

Plain1 == <<"a">>
Awkward == <<"%", "2", "6", "&", "=", "+", ",">>
Accented == <<"a", Lead, Tail2, CR, LF, "&">>

Ordinary(transport) ==
    [transport |-> transport, openTimeout |-> 4, slack |-> 1, hint |-> << >>, commitment |-> << >>,
     retryInitial |-> 1, retryMax |-> 2, sendSync |-> TRUE, contentLength |-> << >>]
Transports == {"WebSocket", "HttpStreaming"}

Home == [address |-> <<"https", "://", "h">>,
         named |-> [tls |-> TRUE, host |-> <<"h">>, port |-> 443, base |-> << >>]]
Caller(settings, asks) ==
    [address |-> Home.address, named |-> Home.named, settings |-> settings, user |-> << >>, password |-> << >>, adapterSet |-> << >>, asks |-> asks]
Listed(names) == [listed |-> TRUE, names |-> names]
Named(text) == [listed |-> FALSE, text |-> text]
Want(items, fields) ==
    [items |-> items, fields |-> fields, mode |-> "MERGE", adapter |-> << >>, selector |-> << >>,
     snapshot |-> <<"off">>, frequency |-> Unlimited, buffer |-> <<"server">>]
One == Want(Listed(<<Plain1>>), Listed(<<Plain1>>))
Subscribing(want) == [kind |-> "subscribe", want |-> want]
Sending(text, sequence, number, maxWait) ==
    [kind |-> "send", want |-> [text |-> text, sequence |-> sequence,
                                progressive |-> number, maxWait |-> maxWait]]

\* Every choice a subscription offers, with every mode.
EveryChoice ==
    {<<Subscribing([want EXCEPT !.mode = mode])>> :
        mode \in {"MERGE", "DISTINCT", "RAW", "COMMAND"},
        want \in {[One EXCEPT !.snapshot = snapshot] : snapshot \in {<<"off">>, <<"on">>, <<"2">>}}
            \cup {[One EXCEPT !.frequency = frequency] :
                    frequency \in {Unlimited, Unfiltered, <<"1", ".", "5">>, <<"1", ".">>}}
            \cup {[One EXCEPT !.buffer = buffer, !.frequency = frequency] :
                    buffer \in {<<"unlimited">>, <<"3">>}, frequency \in {Unlimited, Unfiltered}}}

\* Names and lists, some of which are refused.
Groups ==
    {Listed(<<Awkward, Plain1>>), Listed(<<Accented>>), Listed(<<<<"a">>, <<"a", " ", "b">>>>),
     Listed(<<<<"+">>, <<"a", Lead, Tail2>>, <<"b">>>>), Listed(<<<<"a", Nul>>>>), Listed(<< >>),
     Named(<<"a", " ", "+", "&">>), Named(<<" ">>), Named(<<"a", LF>>)}
Texts ==
    {<<Subscribing(Want(items, fields))>> : items \in Groups, fields \in {Listed(<<Plain1>>)} }
    \cup {<<Subscribing(Want(Listed(<<Plain1>>), fields))>> : fields \in Groups}
    \cup {<<Subscribing([One EXCEPT !.adapter = <<Awkward>>, !.selector = <<Accented>>])>>}

Messages ==
    {<<Sending(text, << >>, << >>, << >>)>> : text \in {Awkward, Accented, << >>}}
    \cup {<<Sending(Awkward, sequence, number, maxWait)>> :
            sequence \in {<< >>, <<<<"s", "_", "1">>>>, <<ReservedSequence>>, <<<<"s", "-">>>>},
            number \in {<< >>, <<1>>, <<12>>}, maxWait \in {<< >>, <<0>>}}

\* Asks that follow one another, on a session that may be bound again.
Series ==
    {<<Subscribing(One), [kind |-> "reconfigure", of |-> 1, frequency |-> <<"2">>]>>,
     <<Subscribing(One), [kind |-> "unsubscribe", of |-> 1]>>,
     <<Subscribing(One), Subscribing([One EXCEPT !.snapshot = <<"on">>])>>,
     <<Sending(Plain1, <<<<"s">>>>, <<1>>, <<5>>), Sending(Awkward, << >>, <<1>>, << >>)>>,
     <<[kind |-> "heartbeat"], [kind |-> "rebind", closeSocket |-> <<TRUE>>]>>,
     <<[kind |-> "rebind", closeSocket |-> << >>], [kind |-> "destroy"]>>}

\* Settings and credentials, some of which are refused.
Identities ==
    {[Caller([Ordinary(transport) EXCEPT !.commitment = commitment, !.sendSync = sync,
                                         !.contentLength = length], << >>)
        EXCEPT !.user = user, !.password = user, !.adapterSet = adapters] :
        transport \in Transports \cup {"HttpPolling"}, sync \in BOOLEAN,
        commitment \in {<< >>, <<0>>, <<4>>, <<99>>}, length \in {<< >>, <<100>>},
        user \in {<< >>, <<Awkward>>}, adapters \in {<< >>, <<<<"D", " ">>>>, <<<<" ">>>>, <<<<Nul>>>>}}

\* Addresses, written in many ways, and what each of them names.
At(scheme, before, host, port, path) ==
    [address |-> <<scheme, "://">> \o before \o host
                 \o (IF port = << >> THEN << >> ELSE <<":">> \o port) \o path,
     named |-> [tls |-> scheme \in {"wss", "https", "WSS", "HTTPS"},
                host |-> IF host[1] = "[" THEN SubSeq(host, 2, Len(host) - 1) ELSE host,
                port |-> CASE port = << >> -> IF scheme \in {"ws", "http"} THEN 80 ELSE 443
                           [] port[1] \in DOMAIN Ports -> Ports[port[1]]
                           [] OTHER -> 0,
                base |-> WithoutTrailing(path, {"/"})]]
Hosts ==
    {<<"h">>, <<"[", ":", ":", "1", "]">>, <<"h", " ", "i">>, <<":", "1">>,
     <<"[", ":", ":", "1", "]", "x">>}
Paths ==
    {<< >>, <<"/">>, <<"/", "p", "/">>, <<"/", "lightstreamer">>, <<"?", "p">>,
     <<"/", "p", "/", "..">>, <<"/", "p", "#">>}
Places ==
    {At(scheme, before, host, port, << >>) :
        scheme \in {"ws", "https", "WSS", "ftp"}, before \in {<< >>, <<"u", "@">>}, host \in Hosts,
        port \in {<< >>, <<"81">>, <<"0">>, <<"70000">>, <<"+80">>}}
    \cup {At(scheme, << >>, <<"h">>, port, path) :
            scheme \in {"ws", "https"}, port \in {<< >>, <<"81">>}, path \in Paths}
    \cup {At("https", << >>, <<" ">>, << >>, << >>)}
Settlers ==
    {[Caller(Ordinary(transport), << >>) EXCEPT !.address = place.address, !.named = place.named] :
        transport \in Transports, place \in Places}

OneOfEach ==
    {Caller(Ordinary(transport), asks) :
        transport \in Transports, asks \in EveryChoice \cup Texts \cup Messages \cup Series}
        \cup Identities \cup Settlers
Answering(to, host, port) ==
    [id |-> <<"S", ",", "+", "%">>, link |-> to, host |-> host, port |-> port]
SomeSessions ==
    {Answering(<<"*">>, << >>, << >>), Answering(<<"k">>, <<"k">>, << >>),
     Answering(<<"ws", "://", "k", ":", "81", "/">>, <<"k">>, <<81>>)}
SomeRemarks == {<<"n", "o", ",", "%", "+", "1">>}
=============================================================================
