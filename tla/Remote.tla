--------------------------------- MODULE Remote ---------------------------------
(***************************************************************************)
(* An archive read over HTTP, a stretch at a time (acquire/acquire.go).    *)
(*                                                                         *)
(* A host answers a request with [hops: the redirects it was sent through, *)
(* status, range: what Content-Range says, body: the bytes that arrived].  *)
(* A reader is [size: how long the archive has been said to be, requests,  *)
(* read: how many and how much].                                           *)
(***************************************************************************)
EXTENDS Integers, Sequences, SequencesExt

CONSTANT MaxRedirects
ASSUME RemoteAssumption == MaxRedirects \in Nat

NoSize == -1            \* a total of "*", or none said yet
NoReader == [ok |-> FALSE]

\* A URL is [scheme, host].
NewRangeReader(url) ==
    IF url.scheme \notin {"http", "https"} \/ url.host = "" THEN NoReader
    ELSE [ok |-> TRUE, url |-> url, size |-> NoSize, requests |-> 0, read |-> 0]

\* May a request that went via these be sent on to next?
CheckRedirect(next, via) ==
    LET prev == Last(via)
    IN  /\ Len(via) <= MaxRedirects
        /\ next.scheme \in {"http", "https"}
        /\ next.host = prev.host
        /\ prev.scheme = "https" => next.scheme = "https"

Followed(reader, hops) ==
    \A i \in DOMAIN hops : CheckRedirect(hops[i], <<reader.url>> \o SubSeq(hops, 1, i - 1))

\* Does Content-Range, [first, last, total], name a stretch?  One that is
\* missing or is not of that form has a first of -1.
IsContentRange(range) == range.first >= 0 /\ range.last >= range.first /\ range.total >= NoSize

\* An archive does not change its length while it is read.
RecordSize(reader, total) ==
    IF total = NoSize THEN [ok |-> TRUE, size |-> reader.size]
    ELSE [ok |-> reader.size \in {NoSize, total}, size |-> total]

Answer(reader, n, bytes, error) == [reader |-> reader, n |-> n, bytes |-> bytes, error |-> error]
Refuse(reader) == Answer(reader, 0, <<>>, "refused")

ReadRange(reader, off, length, resp) ==
    LET last == off + length - 1
        range == resp.range
        size == RecordSize(reader, range.total)
        want == range.last - range.first + 1
        bytes == SubSeq(resp.body, 1, IF want < Len(resp.body) THEN want ELSE Len(resp.body))
        counted == [reader EXCEPT !.size = size.size, !.requests = @ + 1, !.read = @ + Len(bytes)]
    IN  IF off < 0 THEN Refuse(reader)
        ELSE IF length = 0 THEN Answer(reader, 0, <<>>, "none")
        ELSE IF ~Followed(reader, resp.hops) THEN Refuse(reader)
        ELSE IF resp.status = 416 THEN Answer(reader, 0, <<>>, "EOF")
        ELSE IF \/ resp.status # 206 \/ ~IsContentRange(range)
                \/ range.first # off \/ range.last > last \/ ~size.ok
          THEN Refuse(reader)
        ELSE IF Len(bytes) # want THEN Answer(counted, Len(bytes), bytes, "refused")
        ELSE Answer(counted, want, bytes, IF want < length THEN "EOF" ELSE "none")

-----------------------------------------------------------------------------
(***************************************************************************)
(* A host that has one edition of the archive and later another, either    *)
(* its own bytes in its own length, and answers each request with what it  *)
(* has, or says it does: some of it, too little, or other bytes.           *)
(***************************************************************************)
Edition(e, length) == [i \in 1..length |-> <<e, i - 1>>]

\* What a sequence of requests [off, length, resp] was answered, in order.
ReaderAfter(reader, answers) == IF answers = <<>> THEN reader ELSE Last(answers).reader

ReadAll(reader, asked) ==
    FoldLeft(LAMBDA answers, q : Append(answers, ReadRange(ReaderAfter(reader, answers), q.off, q.length, q.resp)),
             <<>>, asked)

(***************************************************************************)
(* Of what was answered without error, a whole answer is the bytes asked   *)
(* for; no two are of editions of different lengths, as long as the host   *)
(* says how long its edition is; and the redirects followed stayed on the  *)
(* host, at no less than its scheme.  sizes is the length of each edition. *)
(***************************************************************************)
HostIsRead(url, asked, sizes) ==
    LET reader == NewRangeReader(url)
        answers == ReadAll(reader, asked)
        Taken(i) == answers[i].error # "refused" /\ answers[i].n > 0
        Of(i) == {answers[i].bytes[k][1] : k \in 1..answers[i].n}
    IN  reader.ok =>
          /\ \A i \in DOMAIN asked : Taken(i) =>
                /\ answers[i].n = asked[i].length \/ answers[i].error = "EOF"
                /\ \A k \in 1..answers[i].n : answers[i].bytes[k][2] = asked[i].off + k - 1
                /\ \A h \in DOMAIN asked[i].resp.hops :
                      /\ asked[i].resp.hops[h].host = url.host
                      /\ url.scheme = "https" => asked[i].resp.hops[h].scheme = "https"
          /\ \A i, j \in DOMAIN asked :
                Taken(i) /\ Taken(j) /\ NoSize \notin {asked[i].resp.range.total, asked[j].resp.range.total} =>
                    \A e \in Of(i), f \in Of(j) : sizes[e] = sizes[f]
=============================================================================
