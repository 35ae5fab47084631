------------------------------ MODULE Addresses ------------------------------
(***************************************************************************)
(* config/address.rs, and the endpoint each transport makes of an address: *)
(* resolve in transport/http.rs, stream_uri in transport/ws.rs.            *)
(*                                                                         *)
(* An address is a sequence of words and marks; a port is one word.        *)
(***************************************************************************)
EXTENDS Naturals, Sequences, SequencesExt, TLC

SchemeMark == "://"
Lowered == "WSS" :> "wss" @@ "HTTPS" :> "https"
ToLower(scheme) == IF scheme \in DOMAIN Lowered THEN Lowered[scheme] ELSE scheme
SecureSchemes == {"wss", "https"}
InsecureSchemes == {"ws", "http"}

(* What a port parses to: a u16, with or without a plus.                   *)
Ports == "0" :> 0 @@ "80" :> 80 @@ "81" :> 81 @@ "443" :> 443 @@ "+80" :> 80
DefaultPort(tls) == IF tls THEN 443 ELSE 80
StreamPath == <<"/", "lightstreamer">>

Marks(text, marks) == {k \in DOMAIN text : text[k] \in marks}
FirstOf(positions) == CHOOSE k \in positions : \A j \in positions : k <= j
LastOf(positions) == CHOOSE k \in positions : \A j \in positions : j <= k

(* The text before a position, and after it.                               *)
Before(text, k) == SubSeq(text, 1, k - 1)
After(text, k) == SubSeq(text, k + 1, Len(text))
UpTo(text, marks) ==
    IF Marks(text, marks) = {} THEN text ELSE Before(text, FirstOf(Marks(text, marks)))
WithoutTrailing(text, marks) ==
    LET kept == {k \in DOMAIN text : text[k] \notin marks}
    IN  IF kept = {} THEN << >> ELSE SubSeq(text, 1, LastOf(kept))
Trim(text) == Reverse(WithoutTrailing(Reverse(WithoutTrailing(text, {" "})), {" "}))
WithoutScheme(text) ==
    IF Marks(text, {SchemeMark}) = {} THEN text ELSE After(text, FirstOf(Marks(text, {SchemeMark})))

-----------------------------------------------------------------------------
(* ServerAddress::try_new *)

NoPort == << >>
(* The host and, if there is one, the port: of a bracketed literal what is *)
(* behind the bracket counts only behind a colon.                          *)
HostAndPort(authority) ==
    LET inner  == Tail(authority)
        close  == Marks(inner, {"]"})
        after  == After(inner, FirstOf(close))
        colons == Marks(authority, {":"})
    IN  IF authority[1] = "["
        THEN IF close = {} THEN [host |-> << >>, port |-> NoPort]
             ELSE [host |-> Before(inner, FirstOf(close)),
                   port |-> IF after # << >> /\ after[1] = ":" THEN <<Tail(after)>> ELSE NoPort]
        ELSE IF colons = {} THEN [host |-> authority, port |-> NoPort]
             ELSE [host |-> Before(authority, LastOf(colons)),
                   port |-> <<After(authority, LastOf(colons))>>]

IsPort(word) == Len(word) = 1 /\ word[1] \in DOMAIN Ports /\ Ports[word[1]] # 0
AuthorityIsChecked(authority) ==
    LET split == HostAndPort(authority)
    IN  /\ authority # << >> /\ Marks(authority, {"@"}) = {}
        /\ split.host # << >> /\ Marks(split.host, {" ", "[", "]"}) = {}
        /\ authority[1] # "[" => Marks(split.host, {":"}) = {}
        /\ \A k \in DOMAIN split.port : IsPort(split.port[k])

PathIsChecked(path) == Marks(path, {"?", "#", " ", ".."}) = {}

Rejected == [ok |-> FALSE]
TryNew(address) ==
    LET trimmed   == Trim(address)
        scheme    == ToLower(trimmed[1])
        rest      == WithoutScheme(trimmed)
        authority == UpTo(rest, {"/", "?", "#"})
        path      == SubSeq(rest, Len(authority) + 1, Len(rest))
    IN  IF /\ Len(trimmed) > 1 /\ trimmed[2] = SchemeMark
           /\ scheme \in SecureSchemes \cup InsecureSchemes
           /\ AuthorityIsChecked(authority) /\ PathIsChecked(path)
        THEN [ok |-> TRUE, text |-> <<scheme, SchemeMark>> \o authority \o WithoutTrailing(path, {"/"})]
        ELSE Rejected

-----------------------------------------------------------------------------
(* A control link counts unless it is empty or a star, and then for its    *)
(* authority: the scheme is the address's.                                 *)
Links(link) == link # << >> /\ Trim(link[1]) \notin {<< >>, <<"*">>}
Unresolved == [ok |-> FALSE]

BareAuthority(text) ==
    LET host == UpTo(text, {"/"})
        ats  == Marks(host, {"@"})
    IN  IF ats = {} THEN host ELSE After(host, LastOf(ats))

SplitHostPort(authority, tls) ==
    LET split == HostAndPort(authority)
        literal == authority[1] = "["
        after == After(authority, FirstOf(Marks(authority, {"]"})))
        ported == split.port # NoPort /\ (literal \/ split.host # << >>)
    IN  IF \/ literal /\ Marks(authority, {"]"}) = {}
           \/ literal /\ after # << >> /\ after[1] # ":"
           \/ ported /\ ~(Len(split.port[1]) = 1 /\ split.port[1][1] \in DOMAIN Ports)
        THEN Unresolved
        ELSE [ok |-> TRUE, tls |-> tls,
              host |-> IF ported \/ split.port = NoPort THEN split.host ELSE authority,
              port |-> IF ported THEN Ports[split.port[1][1]] ELSE DefaultPort(tls),
              path |-> StreamPath]

\* The scheme of the link counts.
TlsOfLink(address, link) ==
    IF Links(link) /\ Marks(link[1], {SchemeMark}) # {} THEN link[1][1] \in SecureSchemes
    ELSE address[1] \in SecureSchemes

IsTls(address, link) == address[1] \in SecureSchemes

Resolve(address, link) ==
    LET tls       == IsTls(address, link)
        named     == IF Links(link) THEN WithoutScheme(Trim(link[1])) ELSE WithoutScheme(address)
        authority == WithoutTrailing(BareAuthority(named), {"/"})
    IN  IF authority = << >> THEN Unresolved ELSE SplitHostPort(authority, tls)

StreamUri(address, link) ==
    LET tls   == IsTls(address, link)
        named == IF Links(link) THEN WithoutScheme(Trim(link[1])) ELSE WithoutScheme(address)
        kept  == WithoutTrailing(named, {"/"})
    IN  IF kept = << >> THEN Unresolved
        ELSE [ok |-> TRUE,
              text |-> <<IF tls THEN "wss" ELSE "ws", SchemeMark>> \o kept
                       \o (IF IsSuffix(StreamPath, kept) THEN << >> ELSE StreamPath)]

(* How the WebSocket library reads that URI: external.                     *)
DialUri(uri) ==
    LET tls       == uri.text[1] = "wss"
        rest      == WithoutScheme(uri.text)
        authority == UpTo(rest, {"/"})
        split     == SplitHostPort(authority, tls)
    IN  IF ~uri.ok \/ ~split.ok THEN Unresolved
        ELSE [split EXCEPT !.path = SubSeq(rest, Len(authority) + 1, Len(rest))]

Dialled(kind, address, link) ==
    IF kind = "ws" THEN DialUri(StreamUri(address, link)) ELSE Resolve(address, link)
=============================================================================
