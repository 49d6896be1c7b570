------------------------------ MODULE Requests ------------------------------
(***************************************************************************)
(* From a frame to the endpoint in force: the grammar of requests          *)
(* (parseFrame, ipc/protocol.go), the checks of Configure that need        *)
(* nothing but the request (connection/manager.go), the normalisation of   *)
(* URLs and the policy on plain HTTP (connection/profile.go), the stored   *)
(* profile and its load at the next start, from connection.json or from    *)
(* service.json. A frame is its type, its keys and the values that matter; *)
(* username and allow_insecure_http follow one rule, so one stands for     *)
(* both in the grammar. The transaction itself is in Configure.            *)
(***************************************************************************)
EXTENDS Integers, FiniteSets

Types == {"hello", "health", "torrent.subscribe", "torrent.pause", "torrent.add",
          "torrent.remove", "connection.test", "connection.configure", "other"}

Keys == {"protocol", "id", "hash", "url", "delete_files", "ref", "username", "password",
         "use_stored_password", "tls_mode", "pin", "secret_action"}

ConnKeys == {"username", "password", "use_stored_password", "tls_mode", "pin", "secret_action"}

\* host and colon: the text before the port, which ends in a colon of its own
\* in "localhost::80"; a bare port is a colon with nothing after it; extra
\* stands for what must not be in a URL: a control character, or user, query,
\* fragment. "Localhost" is any spelling in other than lower case.
Urls == [scheme : {"http", "https", "magnet"}, host : {"localhost", "Localhost", "remote"},
         colon : BOOLEAN, port : {"none", "bare", "default", "other", "invalid"},
         path : {"", "/", "/a", "/a/", "/../a"}, extra : {"none", "control", "query"}]

Plain(scheme) == [scheme |-> scheme, host |-> "remote", colon |-> FALSE, port |-> "none",
                  path |-> "", extra |-> "none"]

\* Frames for the grammar: any keys; frames for the rest: any URL.
FormFrames ==
  [type : Types, keys : SUBSET Keys,
   url  : {Plain("magnet"), Plain("http"), [Plain("http") EXCEPT !.extra = "control"]},
   tls_mode : {"system", "pin"}, secret_action : {"keep", "replace", "delete"},
   ack : {FALSE}, flaw : {FALSE}]

FlawedFrames ==
  [type : Types, keys : SUBSET Keys, url : {Plain("http")}, tls_mode : {"system"},
   secret_action : {"keep"}, ack : {FALSE}, flaw : {TRUE}]

UrlFrames ==
  [type : {"connection.configure"}, keys : {{"id", "url", "tls_mode", "secret_action"}},
   url : Urls, tls_mode : {"system"}, secret_action : {"keep"}, ack : BOOLEAN, flaw : {FALSE}]

NoFrame    == [type |-> "none", url |-> Plain("none")]
NoProfile  == [url |-> Plain("none"), ack |-> FALSE]
NoEndpoint == [url |-> Plain("none"), loopback |-> FALSE]

VARIABLES
  frame,     \* the request
  stage,     \* what has become of it
  profile,   \* in connection.json if that exists, else from service.json
  judged,    \* history: the endpoint Configure has judged
  endpoint,  \* in force
  consent    \* allow_insecure_http of the profile in force

requestVars == <<frame, stage, profile, judged, endpoint, consent>>

-----------------------------------------------------------------------------
(* The grammar.                                                            *)

Has(f, k) == k \in f.keys
HasAny(f, ks) == f.keys \cap ks # {}

\* The rules of the connection types, as the code refuses. Mutant: without the
\* rule that keep and delete carry no password.
ConnInvalidButPassword(f) ==
  \/ ~({"id", "url", "tls_mode"} \subseteq f.keys)
  \/ HasAny(f, {"protocol", "hash", "delete_files", "ref"})
  \/ f.url.extra = "control"
  \/ Has(f, "password") /\ Has(f, "use_stored_password")
  \/ (f.tls_mode = "pin") # Has(f, "pin")
  \/ (f.type = "connection.configure") # Has(f, "secret_action")
  \/ f.type = "connection.configure" /\ f.secret_action = "replace" /\ ~Has(f, "password")

ConnInvalid(f) ==
  \/ ~Has(f, "id") \/ HasAny(f, {"protocol", "hash", "delete_files", "ref"})
  \/ ~Has(f, "url") \/ ~Has(f, "tls_mode")
  \/ f.url.extra = "control"
  \/ Has(f, "password") /\ Has(f, "use_stored_password")
  \/ f.tls_mode = "pin" /\ ~Has(f, "pin")
  \/ f.tls_mode # "pin" /\ Has(f, "pin")
  \/ f.type = "connection.test" /\ Has(f, "secret_action")
  \/ /\ f.type = "connection.configure"
     /\ \/ ~Has(f, "secret_action")
        \/ f.secret_action = "replace" /\ ~Has(f, "password")
        \/ f.secret_action # "replace" /\ Has(f, "password")

Invalid(f) ==
  CASE f.type = "hello" ->
         ~Has(f, "protocol") \/ HasAny(f, Keys \ {"protocol"})
    [] f.type \in {"health", "torrent.subscribe"} ->
         ~Has(f, "id") \/ HasAny(f, Keys \ {"id"})
    [] f.type = "torrent.pause" ->
         \/ ~Has(f, "id") \/ ~Has(f, "hash") \/ ~Has(f, "ref")
         \/ HasAny(f, {"protocol", "url", "delete_files"} \cup ConnKeys)
    [] f.type = "torrent.add" ->
         \/ ~Has(f, "id") \/ ~Has(f, "url") \/ ~Has(f, "ref")
         \/ HasAny(f, {"protocol", "hash", "delete_files"} \cup ConnKeys)
         \/ f.url.scheme # "magnet"
    [] f.type = "torrent.remove" ->
         \/ ~Has(f, "id") \/ ~Has(f, "hash") \/ ~Has(f, "ref") \/ ~Has(f, "delete_files")
         \/ HasAny(f, {"protocol", "url"} \cup ConnKeys)
    [] f.type \in {"connection.test", "connection.configure"} -> ConnInvalid(f)
    [] OTHER -> f.keys # {}

\* flaw: a key that is unknown, doubled, null or of the wrong form.
Parse ==
  /\ stage = "received"
  /\ stage' = IF frame.flaw \/ Invalid(frame) THEN "invalid" ELSE "parsed"
  /\ UNCHANGED <<frame, profile, judged, endpoint, consent>>

-----------------------------------------------------------------------------
(* URLs.                                                                   *)

ToLower(host) == IF host = "Localhost" THEN "localhost" ELSE host

\* Mutant of IsLoopbackHost: compared as it is written.
IsLoopbackAsWritten(u) == u.host = "localhost" /\ ~u.colon
IsLoopbackHost(u) == ToLower(u.host) = "localhost" /\ ~u.colon

ValidURL(u) ==
  /\ u.extra = "none" /\ u.scheme \in {"http", "https"}
  /\ u.port # "invalid" /\ u.path # "/../a"

\* The default port is appended when there is none, also after a bare colon.
NormalizedURL(u) ==
  [u EXCEPT !.host  = ToLower(@),
            !.colon = @ \/ u.port = "bare",
            !.port  = IF @ \in {"none", "bare"} THEN "default" ELSE @,
            !.path  = CASE @ = "/" -> "" [] @ = "/a/" -> "/a" [] OTHER -> @]

EndpointOf(u) == [url |-> NormalizedURL(u), loopback |-> IsLoopbackHost(u)]

InsecureTransport(ep) == ep.url.scheme = "http" /\ ~ep.loopback
httpPolicyError(ep, ack) == InsecureTransport(ep) /\ ~ack

-----------------------------------------------------------------------------
(* Configure, the store and the start.                                     *)

\* Profile.Validate, before a profile is saved and when it is loaded.
Valid(p) == ValidURL(p.url) /\ ~httpPolicyError(EndpointOf(p.url), p.ack)

\* What Configure looks at besides the URL before it touches any state.
Misshapen(f) ==
  \/ f.secret_action = "replace" /\ ~Has(f, "password")
  \/ f.tls_mode = "pin" /\ ~Has(f, "pin")

\* All the failures that have nothing to do with the request are one choice.
\* What comes into force is the endpoint of the request; the profile keeps its
\* normalized URL.
Configure ==
  /\ stage = "parsed" /\ frame.type = "connection.configure"
  /\ LET ep   == EndpointOf(frame.url)
         next == [url |-> ep.url, ack |-> frame.ack] IN
     \/ /\ stage' = CASE ~ValidURL(frame.url) -> "invalid_url"
                       [] ValidURL(frame.url) /\ httpPolicyError(ep, frame.ack) -> "insecure_http"
                       [] Misshapen(frame) -> "misshapen"
                       [] OTHER -> "rejected"
        /\ UNCHANGED <<profile, judged, endpoint, consent>>
     \/ /\ ValidURL(frame.url) /\ ~httpPolicyError(ep, frame.ack) /\ ~Misshapen(frame)
        /\ IF Valid(next)
             THEN /\ stage' = "active"
                  /\ profile' = next /\ judged' = ep
                  /\ endpoint' = ep /\ consent' = frame.ack
             ELSE /\ stage' = "storage_error"
                  /\ UNCHANGED <<profile, judged, endpoint, consent>>
  /\ UNCHANGED frame

\* The daemon does not start on a profile that is not valid.
Load ==
  /\ stage \in {"off", "active"}
  /\ IF Valid(profile)
       THEN /\ stage' = "loaded"
            /\ endpoint' = EndpointOf(profile.url) /\ consent' = profile.ack
       ELSE stage' = "failed" /\ UNCHANGED <<endpoint, consent>>
  /\ UNCHANGED <<frame, profile, judged>>

RequestsInit ==
  /\ judged = NoEndpoint /\ endpoint = NoEndpoint /\ consent = FALSE
  /\ \/ stage = "received" /\ frame \in FormFrames \cup FlawedFrames \cup UrlFrames /\ profile = NoProfile
     \/ stage = "off" /\ frame = NoFrame /\ profile \in [url : Urls, ack : BOOLEAN]

RequestsNext == Parse \/ Configure \/ Load

RequestsSpec == RequestsInit /\ [][RequestsNext]_requestVars

-----------------------------------------------------------------------------
Required(type) ==
  CASE type = "hello" -> {"protocol"}
    [] type \in {"health", "torrent.subscribe"} -> {"id"}
    [] type = "torrent.pause"  -> {"id", "hash", "ref"}
    [] type = "torrent.add"    -> {"id", "url", "ref"}
    [] type = "torrent.remove" -> {"id", "hash", "ref", "delete_files"}
    [] type = "connection.test"      -> {"id", "url", "tls_mode"}
    [] type = "connection.configure" -> {"id", "url", "tls_mode", "secret_action"}
    [] OTHER -> {}

Optional(type) ==
  IF type \in {"connection.test", "connection.configure"}
    THEN {"username", "password", "use_stored_password", "pin"} ELSE {}

WellFormed(f) ==
  /\ ~f.flaw /\ Required(f.type) \subseteq f.keys
  /\ f.keys \subseteq Required(f.type) \cup Optional(f.type)
  /\ f.type = "torrent.add" => f.url.scheme = "magnet"
  /\ Optional(f.type) # {} =>
       /\ f.url.extra # "control"
       /\ Has(f, "pin") <=> f.tls_mode = "pin"
       /\ ~({"password", "use_stored_password"} \subseteq f.keys)
       /\ f.type = "connection.configure" =>
            (Has(f, "password") <=> f.secret_action = "replace")

\* The parser lets through exactly the frames of docs/IPC.md: the keys of the
\* type, and of those that depend on another value just the ones it calls
\* for. Configure never has to answer a URL it finds valid with invalid_url
\* because of the rest of the request.
GrammarIsExact ==
  /\ stage = "invalid" => ~WellFormed(frame)
  /\ stage \notin {"received", "invalid", "off", "loaded", "failed"} => WellFormed(frame)
  /\ stage # "misshapen"

\* "Startup must enforce exactly what configure enforces" (Profile.Validate):
\* what is in force is what Configure has judged, also after a restart, and
\* plain HTTP leaves the machine only with consent, whichever file the
\* profile comes from. A bare port is the exception.
EndpointIsJudged ==
  /\ InsecureTransport(endpoint) => consent
  /\ judged # NoEndpoint /\ frame.url.port # "bare" =>
       endpoint = judged /\ stage \in {"active", "loaded"}

\* The same without the exception.
EveryEndpointIsJudged == judged # NoEndpoint => endpoint = judged
=============================================================================
