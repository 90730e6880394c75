------------------------------ MODULE Response ------------------------------
(***************************************************************************)
(* The writers a response passes on its way out of a handler: the tracker  *)
(* of recoverMiddleware (/graphql only), the statusWriter of instrument,   *)
(* and gzipResponseWriter before net/http.  All of them live on the        *)
(* goroutine of one request, so each call of the handler is a function of  *)
(* the chain's state.  A body is its length.                               *)
(*                                                                         *)
(* Handlers make at most one WriteHeader and then write their body, set    *)
(* neither Content-Encoding nor Content-Length, never flush or hijack, and *)
(* write no body with a 304; the branches of gzipResponseWriter for those  *)
(* cases are left out.  The body may come in any number of Writes, so that *)
(* a panic in the middle of it is a panic between two of them.             *)
(***************************************************************************)
EXTENDS Integers

CONSTANTS MinSize,   \* gzipMinSize
          ErrorSize  \* length of recoverMiddleware's body

ASSUME SizeAssumption == MinSize \in Nat \ {0, 1} /\ ErrorSize \in Nat \ {0}

\* What a handler writes: a code (0 when it calls no WriteHeader) and a body, of
\* which so much is written.
Reply == [code : Nat, size : Nat, written : Nat]

Chain ==
  [head : BOOLEAN,                          \* the method is HEAD
   accepts : BOOLEAN,                       \* clientAcceptsGzip
   headerWritten : BOOLEAN,                 \* responseTracker
   recorded : Nat,                          \* statusWriter.status
   status : Nat, wroteHeader : BOOLEAN,     \* gzipResponseWriter
   buf : Nat, gz : BOOLEAN, held : Nat,     \* ... and what its compressor holds
   sent : [status : Nat, gzip : BOOLEAN, body : Nat]]  \* net/http

NewChain(head, accepts) ==
  [head |-> head, accepts |-> accepts, headerWritten |-> FALSE, recorded |-> 200,
   status |-> 0, wroteHeader |-> FALSE, buf |-> 0, gz |-> FALSE, held |-> 0,
   sent |-> [status |-> 0, gzip |-> FALSE, body |-> 0]]

-----------------------------------------------------------------------------
(* net/http: the first status counts, a body without one is a 200, and to HEAD *)
(* no body is sent                                                             *)

NetHeader(w, code) == IF w.sent.status = 0 THEN [w EXCEPT !.sent.status = code] ELSE w

NetWrite(w, n) == [NetHeader(w, 200) EXCEPT !.sent.body = IF w.head THEN @ ELSE @ + n]

-----------------------------------------------------------------------------
(* gzipResponseWriter *)

writeHeaderNow(w) ==
  IF w.wroteHeader THEN w
  ELSE [NetHeader(w, IF w.status = 0 THEN 200 ELSE w.status) EXCEPT !.wroteHeader = TRUE]

startGzip(w) == [writeHeaderNow([w EXCEPT !.sent.gzip = TRUE]) EXCEPT !.gz = TRUE]

GzipWriteHeader(w, code) == IF w.accepts THEN [w EXCEPT !.status = code] ELSE NetHeader(w, code)

\* Buffered up to the threshold, compressed from there on.
GzipWrite(w, n) ==
  IF ~w.accepts THEN NetWrite(w, n)
  ELSE IF w.gz THEN [w EXCEPT !.held = @ + n]
  ELSE IF w.buf + n < MinSize THEN [w EXCEPT !.buf = @ + n]
  ELSE [startGzip(w) EXCEPT !.held = w.buf + n, !.buf = 0]

\* Deferred by gzipMiddleware: the rest of the compressed body, or the buffer.
GzipClose(w) ==
  IF ~w.accepts THEN w
  ELSE IF w.gz THEN [NetWrite(w, w.held) EXCEPT !.held = 0, !.gz = FALSE]
  ELSE LET h == writeHeaderNow(w)
       IN IF w.buf > 0 THEN [NetWrite(h, w.buf) EXCEPT !.buf = 0] ELSE h

-----------------------------------------------------------------------------
(* statusWriter, then responseTracker *)

StatusWriteHeader(w, code) == GzipWriteHeader([w EXCEPT !.recorded = code], code)

TrackerWriteHeader(w, code) == StatusWriteHeader([w EXCEPT !.headerWritten = TRUE], code)

TrackerWrite(w, n) == GzipWrite([w EXCEPT !.headerWritten = TRUE], n)

\* The head of a handler's reply; routes other than /graphql have no tracker, nor a
\* reader of it.
Headed(w, code) == IF code = 0 THEN w ELSE TrackerWriteHeader(w, code)

\* Mutant: the error is written whatever was written before.
MutantRecovered(w) == GzipWrite(StatusWriteHeader(w, 500), ErrorSize)

\* recoverMiddleware after a panic.
Recovered(w) ==
  IF w.headerWritten THEN w ELSE GzipWrite(StatusWriteHeader(w, 500), ErrorSize)

\* What net/http sends when the middlewares return: it too defaults to 200.
Sent(w) == NetHeader(GzipClose(w), 200).sent
=============================================================================
