---------------------------- MODULE HttpServing ----------------------------
(***************************************************************************)
(* A published app over HTTP.  One browser holds one keep-alive connection *)
(* to a front: the server `canopee open` runs on the loopback ("local",    *)
(* canopee-cli/src/app.rs), or the edge's public front door ("edge",       *)
(* canopee-edge/src/httpd.rs), which forwards every request to the         *)
(* publisher's serve session, and the session answers with                 *)
(* canopee-runtime/src/http.rs.                                            *)
(*                                                                         *)
(* A file is a record of what the answer depends on: the content (which is *)
(* also its ETag: the digest of the bytes), its length, whether its type   *)
(* is worth compressing and the length gzip would give it.  An answer is   *)
(* its status, the Content-Length it announces (Nothing when the header is *)
(* missing), the number of body bytes written and which bytes they are.    *)
(* The browser reads as HTTP/1.1 says: it trusts the length announced, and *)
(* without one it reads until the connection closes.                       *)
(***************************************************************************)
EXTENDS Integers

CONSTANTS
    Nothing,          \* no header, no file, no request
    UntilClose,       \* what a body without a length lasts
    Files,            \* the contents a site can have
    Ranges,           \* the single-range headers a browser sends
    MinCompressible   \* MIN_COMPRESSIBLE_LEN, 256 in the code

Keys == {"root", "asset"}                   \* "/" and one published asset
Paths == Keys \cup {"route", "lost"}        \* a route and a missing asset
Methods == {"GET", "HEAD", "other"}
Fronts == {"local", "edge"}

ASSUME FilesAssumption ==
    /\ \A f \in Files : /\ f.len \in Nat
                        /\ f.packed \in Nat
                        /\ f.text \in BOOLEAN
                        /\ f.data # Nothing
    /\ \A f, g \in Files : f.data = g.data => f = g

ASSUME RangesAssumption ==
    \A r \in Ranges : /\ r.first \in Nat \cup {Nothing}
                      /\ r.last \in Nat \cup {Nothing}

ASSUME NamesAssumption ==
    /\ Nothing \notin Int
    /\ UntilClose \notin Int
    /\ Nothing # UntilClose

Sites == [Keys -> Files]

Bodies == {f.data : f \in Files}

HttpRequests ==
    [method : Methods, path : Paths, range : Ranges \cup {Nothing},
     gzip : BOOLEAN, held : Bodies \cup {Nothing}, close : BOOLEAN]

Lesser(a, b) == IF a < b THEN a ELSE b

-----------------------------------------------------------------------------
(* What is served for a request. *)

\* The key a path is answered from: its own file, the entry page for a route
\* (a path without an extension), nothing for an asset that is not there.
ServedKey(path) ==
    IF path \in Keys THEN path
    ELSE IF path = "route" THEN "root"
    ELSE Nothing

All == [kind |-> "all", from |-> 0, to |-> 0]
Unsatisfiable == [kind |-> "unsatisfiable", from |-> 0, to |-> 0]
Part(from, to) == [kind |-> "part", from |-> from, to |-> to]

\* Mutant: the end of a range is clamped to the length, not to the last byte.
ParseRangeToLength(range, len) ==
    CASE range = Nothing -> All
      [] range # Nothing /\ range.first = Nothing ->
           IF len = 0 THEN Unsatisfiable
           ELSE IF range.last = Nothing THEN All
           ELSE IF range.last = 0 THEN Unsatisfiable
           ELSE Part(len - Lesser(range.last, len), len - 1)
      [] range # Nothing /\ range.first # Nothing ->
           IF range.first >= len THEN Unsatisfiable
           ELSE IF range.last = Nothing THEN Part(range.first, len - 1)
           ELSE IF range.last < range.first THEN All
           ELSE Part(range.first, Lesser(range.last, len))

\* `All` is the None of the code: the header is ignored.
ParseRange(range, len) ==
    CASE range = Nothing -> All
      [] range # Nothing /\ range.first = Nothing ->
           IF len = 0 THEN Unsatisfiable
           ELSE IF range.last = Nothing THEN All
           ELSE IF range.last = 0 THEN Unsatisfiable
           ELSE Part(len - Lesser(range.last, len), len - 1)
      [] range # Nothing /\ range.first # Nothing ->
           IF range.first >= len THEN Unsatisfiable
           ELSE IF range.last = Nothing THEN Part(range.first, len - 1)
           ELSE IF range.last < range.first THEN All
           ELSE Part(range.first, Lesser(range.last, len - 1))

Answer(status, length, body, from, file, packed) ==
    [status |-> status, length |-> length, body |-> body, from |-> from,
     tag |-> IF file = Nothing THEN Nothing ELSE file.data, packed |-> packed]

Packs(req, file) ==
    /\ req.gzip
    /\ file.len >= MinCompressible
    /\ file.text
    /\ file.packed < file.len

FullAnswer(req, file) ==
    LET size == IF Packs(req, file) THEN file.packed ELSE file.len
    IN  Answer("200", size, IF req.method = "GET" THEN size ELSE 0, 0, file,
               Packs(req, file))

\* prepare_response and render_response differ in the Content-Length of the
\* answers that have no body, `empty`: the local server writes 0 on a 404 and
\* a 416, the session leaves the header out.
Render(site, req, empty) ==
    LET key == ServedKey(req.path)
        file == IF key = Nothing THEN Nothing ELSE site[key]
        range == ParseRange(req.range, file.len)
    IN  IF file = Nothing THEN Answer("404", empty, 0, 0, Nothing, FALSE)
        ELSE IF req.method # "other" /\ req.held = file.data
             THEN Answer("304", Nothing, 0, 0, file, FALSE)
        ELSE IF req.method = "GET" /\ range.kind = "unsatisfiable"
             THEN Answer("416", empty, 0, 0, Nothing, FALSE)
        ELSE IF req.method = "GET" /\ range.kind = "part"
             THEN Answer("206", range.to - range.from + 1,
                         range.to - range.from + 1, range.from, file, FALSE)
        ELSE FullAnswer(req, file)

LocalAnswer(site, req) == Render(site, req, 0)

SessionAnswer(site, req) == Render(site, req, Nothing)

\* An answer of the edge itself: a short text, with its length only on a 404.
EdgeText(status) ==
    Answer(status, IF status = "404" THEN 1 ELSE Nothing, 1, 0, Nothing, FALSE)

HasBody == {"200", "206", "404", "502", "504"}

\* Mutant: the length is left to the session.
RelayedAsIs(req, answer) ==
    [answer EXCEPT !.body =
        IF answer.status \in HasBody /\ req.method # "HEAD" THEN @ ELSE 0]

\* The edge relays the headers, adds a length when the status has a body, and
\* writes no body to a HEAD.
Relayed(req, answer) ==
    LET sends == answer.status \in HasBody
    IN  [answer EXCEPT
            !.length = IF sends /\ @ = Nothing THEN answer.body ELSE @,
            !.body = IF sends /\ req.method # "HEAD" THEN @ ELSE 0]

-----------------------------------------------------------------------------
VARIABLES
    front,   \* which of the two servers this is
    site,    \* the files the front or the session behind it serves
    conn,    \* "open" or "closed"
    req,     \* the request being answered, or Nothing
    stage,   \* "waiting" for a request, "reading" it, "forwarding" it
    answer,  \* the last answer written, with its request and its site
    owed,    \* the body bytes the browser still waits for
    copy     \* the browser's cache: by path, the content it holds

httpVars == <<front, site, conn, req, stage, answer, owed, copy>>

NoAnswer == [req |-> Nothing, reply |-> Nothing, shown |-> Nothing]

HttpInit ==
    /\ front \in Fronts
    /\ site \in Sites
    /\ conn = "closed"
    /\ req = Nothing
    /\ stage = "waiting"
    /\ answer = NoAnswer
    /\ owed = 0
    /\ copy = [p \in Paths |-> Nothing]

Connect ==
    /\ conn = "closed"
    /\ conn' = "open"
    /\ owed' = 0
    /\ answer' = NoAnswer
    /\ UNCHANGED <<front, site, req, stage, copy>>

\* The browser asks only when it has read the whole of the last answer.  It
\* may send the ETag of its copy, and names a range of what it gets or heads.
Send ==
    /\ conn = "open"
    /\ stage = "waiting"
    /\ owed = 0
    /\ \E path \in Paths, method \in Methods, gzip, close \in BOOLEAN :
       \E held \in {Nothing, copy[path]} :
       \E range \in IF method = "other" THEN {Nothing} ELSE Ranges \cup {Nothing} :
          req' = [method |-> method, path |-> path, range |-> range,
                  gzip |-> gzip, held |-> held, close |-> close]
    /\ stage' = "reading"
    /\ answer' = NoAnswer
    /\ UNCHANGED <<front, site, conn, owed, copy>>

\* The body bytes the browser expects of an answer.
Expected(method, reply) ==
    IF method = "HEAD" \/ reply.status = "304" THEN 0
    ELSE IF reply.length = Nothing THEN UntilClose
    ELSE reply.length

\* Answers what is written to `req`: the connection closes if the request
\* asked for it, and the browser keeps a copy of a whole GET.
WriteAnswer(reply) ==
    LET expected == Expected(req.method, reply)
        missing == IF expected = UntilClose THEN UntilClose
                   ELSE expected - reply.body
    IN  /\ answer' = [req |-> req, reply |-> reply,
                      shown |-> IF reply.status = "304" THEN copy[req.path]
                                ELSE reply.tag]
        /\ owed' = IF req.close THEN 0 ELSE missing
        /\ conn' = IF req.close THEN "closed" ELSE "open"
        /\ copy' = IF reply.status = "200" /\ req.method = "GET"
                   THEN [copy EXCEPT ![req.path] = reply.tag]
                   ELSE copy
        /\ req' = Nothing
        /\ stage' = "waiting"
        /\ UNCHANGED <<front, site>>

AnswerLocally ==
    /\ front = "local"
    /\ stage = "reading"
    /\ WriteAnswer(LocalAnswer(site, req))

\* The registry names no publisher for this host.
NoPublisher ==
    /\ front = "edge"
    /\ stage = "reading"
    /\ WriteAnswer(Relayed(req, EdgeText("404")))

Forward ==
    /\ front = "edge"
    /\ stage = "reading"
    /\ stage' = "forwarding"
    /\ UNCHANGED <<front, site, conn, req, answer, owed, copy>>

\* The session answers in time.
Relay ==
    /\ stage = "forwarding"
    /\ WriteAnswer(Relayed(req, SessionAnswer(site, req)))

\* The request to the publisher fails, or outlives the forward timeout; an
\* answer that comes later finds nobody waiting.
RelayFails ==
    /\ stage = "forwarding"
    /\ \E status \in {"502", "504"} : WriteAnswer(Relayed(req, EdgeText(status)))

\* A connection on which nothing arrives for 30 seconds is closed; so is one
\* the browser leaves, in the middle of a request or not.
Close ==
    /\ conn = "open"
    /\ conn' = "closed"
    /\ req' = Nothing
    /\ stage' = "waiting"
    /\ answer' = NoAnswer
    /\ owed' = 0
    /\ UNCHANGED <<front, site, copy>>

\* Another app is opened on the port of the last one: the files are those of
\* the new process, the browser's cache is not.  At the edge a host is the
\* digest of the app, so its files never change.
OpenAnother ==
    /\ front = "local"
    /\ conn = "closed"
    /\ site' \in Sites
    /\ answer' = NoAnswer
    /\ UNCHANGED <<front, conn, req, stage, owed, copy>>

HttpNext ==
    \/ Connect \/ Send
    \/ AnswerLocally \/ NoPublisher \/ Forward \/ Relay \/ RelayFails
    \/ Close \/ OpenAnother

HttpSpec == HttpInit /\ [][HttpNext]_httpVars

-----------------------------------------------------------------------------
HttpTypeOK ==
    /\ front \in Fronts
    /\ site \in Sites
    /\ conn \in {"open", "closed"}
    /\ req \in HttpRequests \cup {Nothing}
    /\ stage \in {"waiting", "reading", "forwarding"}
    /\ (stage # "waiting") => (conn = "open" /\ req # Nothing)
    /\ owed \in Int \cup {UntilClose}
    /\ copy \in [Paths -> Bodies \cup {Nothing}]

\* On a connection that stays open the server never goes back to waiting for
\* a request while the browser still waits for bytes of the last answer, nor
\* leaves bytes the browser would take for the head of the next answer.  This
\* is so for every GET and HEAD on the local server, and at the edge for all
\* but an unsatisfiable range.
ReadersAreFramed ==
    answer # NoAnswer =>
        \/ owed = 0
        \/ answer.req.method = "other"
        \/ front = "edge" /\ answer.reply.status = "416"

\* The edge adds a Content-Length where the status needs one
\* (httpd.rs:269), that is on every answer that is not bodiless by its status.
EdgeAddsLength ==
    (front = "edge" /\ answer # NoAnswer) =>
        \/ answer.reply.status = "304"
        \/ answer.reply.length # Nothing

\* The bytes of a file that a range header names, by RFC 7233.
Asked(range, len) ==
    {i \in 0 .. len - 1 :
        IF range.first = Nothing THEN i >= len - range.last
        ELSE i >= range.first /\ (range.last # Nothing => i <= range.last)}

\* What the browser shows after a GET is the file the server has under that
\* path now, or exactly the bytes of it that the range names, whatever it
\* held from an earlier app on the same address.
ShownIsServed ==
    LET r == answer.req
        reply == answer.reply
        file == site[ServedKey(r.path)]
    IN  (answer # NoAnswer /\ r.method = "GET"
            /\ reply.status \in {"200", "206", "304"}) =>
            /\ answer.shown = file.data
            /\ reply.status = "200" /\ ~reply.packed => reply.body = file.len
            /\ reply.status = "206" =>
                 {reply.from + i : i \in 0 .. reply.body - 1}
                     = Asked(r.range, file.len)
=============================================================================
