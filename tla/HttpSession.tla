------------------------------ MODULE HttpSession ------------------------------
(***************************************************************************)
(* How a service thread reads the requests of one connection: the part of  *)
(* service_thread between SSL_accept and handle_request (server.cpp),      *)
(* read_incoming_bytes, parse_header and verify_request.                   *)
(*                                                                         *)
(* Bytes are counted in units: the request line, the rest of the header,   *)
(* the body.  A read returns what is left of one TLS record, at most a     *)
(* block.  How long a header is cannot be known before it is read: the end *)
(* of a record is taken for its end.  The client sends one request at a    *)
(* time, in records of any size.  Who watches the connection and who       *)
(* serves it is in SyncServer.                                             *)
(***************************************************************************)
EXTENDS Integers, Sequences

CONSTANTS
    Block,      \* units a read returns at most: the 1024 bytes
    Headers,    \* lengths of headers after the request line, in units
    Bodies,     \* lengths of bodies, in units; 0: less than two bytes
    Attempts    \* SSL_READ_ATTEMPTS

ASSUME HttpAssumption ==
    /\ Block \in Nat \ {0} /\ Headers \subseteq Nat /\ Bodies \subseteq Nat
    /\ Attempts \in Nat

VARIABLES
    client,     \* its end of the connection: open, closed, reset
    kind,       \* what it asked for and has no answer to; or none
    request,    \* the length of that request
    unsent,     \* what it has still to write of it
    arrived,    \* the records the kernel has
    record,     \* what SSL has of a record it decrypted
    stage,      \* of the service thread, or of the connection
    got,        \* the buffer: i is its length
    attempt,
    content_length,
    disturbed   \* history: what was unusual: header or body in several records, a
                \* header that was not understood, a read that failed

clientVars == <<client, kind, request, unsent>>
readVars == <<arrived, record>>
vars == <<clientVars, readVars, stage, got, attempt, content_length, disturbed>>

Parts == [line : Nat, head : Nat, body : Nat]
Nothing == [line |-> 0, head |-> 0, body |-> 0]

Size(r) == r.line + r.head + r.body
Plus(r, s) == [line |-> r.line + s.line, head |-> r.head + s.head, body |-> r.body + s.body]
Minus(r, s) == [line |-> r.line - s.line, head |-> r.head - s.head, body |-> r.body - s.body]

Least(m, n) == IF m < n THEN m ELSE n

\* The first n units of r.
First(r, n) ==
    LET l == Least(n, r.line)
        h == Least(n - l, r.head)
    IN  [line |-> l, head |-> h, body |-> n - l - h]

\* post: one of the four operations; get: GET of the configuration; unknown: a
\* method or operation there is none of; garbled: one word for a request line.
Kinds == {"post", "get", "unknown", "garbled"}

\* "select": with the main thread.  "closed": the connection; "dead": the server.
Stages == {"select", "header", "parse", "body", "handle", "closed", "dead"}

TypeOK ==
    /\ client \in {"open", "closed", "reset"}
    /\ kind \in Kinds \cup {"none"}
    /\ request \in Parts /\ unsent \in Parts
    /\ arrived \in Seq(Parts) /\ record \in Parts
    /\ stage \in Stages
    /\ got \in Parts /\ attempt \in Nat /\ content_length \in Nat
    /\ disturbed \subseteq {"header", "body", "skip", "read"}

\* A service thread has just accepted the TLS session.
Init ==
    /\ client = "open" /\ kind = "none" /\ request = Nothing /\ unsent = Nothing
    /\ arrived = <<>> /\ record = Nothing
    /\ stage = "header"
    /\ got = Nothing /\ attempt = 0 /\ content_length = 0
    /\ disturbed = {}

-----------------------------------------------------------------------------
(* The client. *)

Ask(k, h, b) ==
    /\ client = "open" /\ kind = "none" /\ unsent = Nothing
    /\ kind' = k
    /\ request' = [line |-> 1, head |-> h, body |-> b] /\ unsent' = request'
    /\ UNCHANGED <<client, readVars, stage, got, attempt, content_length, disturbed>>

\* A record.  It is unusual if it has a part of the header only, or with the
\* header a part of the body.
Send(n) ==
    /\ client = "open"
    /\ LET part == First(unsent, n)
           header == part.line + part.head
       IN  /\ arrived' = Append(arrived, part)
           /\ unsent' = Minus(unsent, part)
           /\ disturbed' = disturbed
                 \cup {d \in {"header"} : header \in 1 .. request.line + request.head - 1}
                 \cup {d \in {"body"} : header > 0 /\ part.body \notin {0, request.body}}
    /\ UNCHANGED <<client, kind, request, record, stage, got, attempt, content_length>>

Leave ==
    /\ client = "open"
    /\ \/ client' = "closed" /\ UNCHANGED arrived
       \/ client' = "reset" /\ arrived' = <<>>
    /\ UNCHANGED <<kind, request, unsent, record, stage, got, attempt, content_length,
                   disturbed>>

-----------------------------------------------------------------------------
(* read_incoming_bytes. *)

Reading == {"header", "body"}

\* A new buffer.
Starts(s) == stage' = s /\ got' = Nothing /\ attempt' = 0

\* The buffer is returned, with its end set to 0; or NULL.
Returns == stage' = IF stage = "header" THEN "parse" ELSE "handle"
Null == stage' = "closed"

\* Mutant: the length of the content is not looked at.
More_AnyLength(i, pending) == pending

\* Mutant: what SSL still has is not looked at.
More_NotPending(i, pending) == i < content_length

More(i, pending) == i < content_length \/ pending

Reads ==
    /\ stage \in Reading
    /\ record # Nothing \/ arrived # <<>>
    /\ LET from == IF record # Nothing THEN record ELSE Head(arrived)
           read == First(from, Least(Size(from), Block))
           rest == Minus(from, read)
       IN  /\ record' = rest
           /\ arrived' = IF record # Nothing THEN arrived ELSE Tail(arrived)
           /\ got' = Plus(got, read)
           /\ IF More(Size(got'), rest # Nothing) THEN UNCHANGED stage ELSE Returns
    /\ UNCHANGED <<clientVars, attempt, content_length, disturbed>>

Drained == stage \in Reading /\ record = Nothing /\ arrived = <<>>

\* Mutant: reads of nothing are not counted.
ReadsNothing_Uncounted ==
    /\ Drained /\ client = "closed"
    /\ \/ More(Size(got), FALSE) /\ UNCHANGED stage
       \/ ~More(Size(got), FALSE) /\ IF got = Nothing THEN Null ELSE Returns
    /\ UNCHANGED <<clientVars, readVars, got, attempt, content_length, disturbed>>

\* SSL_read returns 0.
ReadsNothing ==
    /\ Drained /\ client = "closed"
    /\ \/ attempt >= Attempts /\ Null /\ UNCHANGED attempt
       \/ /\ attempt < Attempts /\ attempt' = attempt + 1
          /\ IF More(Size(got), FALSE) THEN UNCHANGED stage
             ELSE IF got = Nothing THEN Null ELSE Returns
    /\ UNCHANGED <<clientVars, readVars, got, content_length, disturbed>>

\* It returns -1: nothing came for 15 seconds, or the connection was reset.  The
\* loop ends, and i has lost one; as it is unsigned, from 0 it wraps: the zero is
\* written 4 GB behind the buffer, and what is in the buffer, which is not
\* initialised, is taken for a request: for none, that is, a request left there from
\* before is left out.
ReadFails ==
    /\ Drained /\ client # "closed"
    /\ \/ attempt >= Attempts /\ Null
       \/ attempt < Attempts /\ got # Nothing /\ Returns
       \/ attempt < Attempts /\ got = Nothing /\ stage' \in {"dead", "closed"}
       \/ attempt < Attempts /\ got = Nothing /\ stage = "header" /\ stage' = "select"
    /\ disturbed' = disturbed \cup {"read"} \cup {d \in {"skip"} : stage' = "select"}
    /\ UNCHANGED <<clientVars, readVars, got, attempt, content_length>>

-----------------------------------------------------------------------------
(* The service thread. *)

\* select reports the connection, and a service thread takes it: there are bytes,
\* if only those of the message that closes the session.
Selected ==
    /\ stage = "select"
    /\ arrived # <<>> \/ client = "closed"
    /\ Starts("header") /\ content_length' = 0
    /\ UNCHANGED <<clientVars, readVars, disturbed>>

\* There are none: the main thread closes it.
HangUp ==
    /\ stage = "select"
    /\ arrived = <<>> /\ client # "open"
    /\ stage' = "closed"
    /\ UNCHANGED <<clientVars, readVars, got, attempt, content_length, disturbed>>

\* verify_request throws: 400.
Refuse ==
    /\ stage = "parse" /\ (got.line > 0 => kind = "unknown")
    /\ stage' = "closed"
    /\ UNCHANGED <<clientVars, readVars, got, attempt, content_length, disturbed>>

\* parse_header returns false: nothing is answered, and the connection is kept.
Skip ==
    /\ stage = "parse" /\ (got.line > 0 => kind = "garbled")
    /\ stage' = "select" /\ disturbed' = disturbed \cup {"skip"}
    /\ UNCHANGED <<clientVars, readVars, got, attempt, content_length>>

\* GET: nothing but the first line is looked at.
ParseGet ==
    /\ stage = "parse" /\ got.line > 0 /\ kind = "get"
    /\ stage' = "handle"
    /\ UNCHANGED <<clientVars, readVars, got, attempt, content_length, disturbed>>

\* POST: Content-Length is found if the header is there.  A header with a '{'
\* behind it has the request in it, from there on.
ParsePost(n) ==
    /\ stage = "parse" /\ got.line > 0 /\ kind = "post"
    /\ IF got.head < request.head THEN n \in 0 .. request.body ELSE n = request.body
    /\ content_length' = n
    /\ CASE n = 0 -> stage' = "closed" /\ UNCHANGED <<got, attempt>>
         [] n > 0 /\ got.body > 0 -> /\ stage' = "handle"
                                     /\ got' = [Nothing EXCEPT !.body = got.body]
                                     /\ UNCHANGED attempt
         [] OTHER -> Starts("body")
    /\ UNCHANGED <<clientVars, readVars, disturbed>>

\* What is handed to handle_request.
Whole == kind = "get" \/ got = [Nothing EXCEPT !.body = request.body]

\* 200.
Reply ==
    /\ stage = "handle" /\ Whole
    /\ stage' = "select" /\ kind' = "none"
    /\ UNCHANGED <<client, request, unsent, readVars, got, attempt, content_length,
                   disturbed>>

\* An error of the handler, or a request that is no JSON: the connection is closed.
ReplyError ==
    /\ stage = "handle"
    /\ stage' = "closed"
    /\ UNCHANGED <<clientVars, readVars, got, attempt, content_length, disturbed>>

-----------------------------------------------------------------------------
Thread ==
    \/ Reads \/ ReadsNothing \/ ReadFails \/ Refuse \/ Skip \/ ParseGet
    \/ \E n \in 0 .. request.body : ParsePost(n)
    \/ Reply \/ ReplyError

Client ==
    \/ \E k \in Kinds, h \in Headers, b \in Bodies : Ask(k, h, IF k = "get" THEN 0 ELSE b)
    \/ \E n \in 1 .. Size(unsent) : Send(n)
    \/ Leave

Next == Client \/ Selected \/ HangUp \/ Thread

Spec == Init /\ [][Next]_vars

FairSpec == Spec /\ WF_vars(Thread) /\ WF_vars(Selected)

-----------------------------------------------------------------------------
(* Properties. *)

\* What is handled is the body of the request that was asked, neither more nor
\* less, if the header came in one record, with all of the body or nothing, and
\* no read failed.
Framed == stage = "handle" /\ disturbed \cap {"header", "body", "read"} = {} => Whole

\* When the connection goes back to select, SSL has nothing left of what was read,
\* which select would not see, and what the kernel has begins with a header, of a
\* request that is not answered; unless a header came in several records or was
\* skipped.
InStep ==
    stage = "select" /\ disturbed \cap {"header", "skip"} = {} =>
        /\ record = Nothing
        /\ arrived # <<>> => kind # "none" /\ Head(arrived).line > 0

\* A service thread comes back from a connection, whatever the client does: no
\* thread is lost to a client that is slow, silent or gone.
ThreadReturns == stage \in Reading ~> stage \in {"select", "closed", "dead"}

=============================================================================
