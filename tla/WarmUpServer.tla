---------------------------- MODULE WarmUpServer ----------------------------
(***************************************************************************)
(* The HTTP/1.1 server on a bare socket (src/warm-up/hw-3/src/server.js; the *)
(* TLS server of https-server.js hands its sockets to the same function).     *)
(* TCP delivers a client's bytes in chunks of any size.  What one sends is a   *)
(* sequence of pieces: a request line, a header line, a header line without    *)
(* a colon, the two bytes of one UTF-8 character of a header's value, the two  *)
(* halves of the empty line that ends the headers.                             *)
(***************************************************************************)
EXTENDS Naturals, Sequences, SequencesExt

CONSTANTS
  Connections,
  Sendings       \* what a client may send: sequences of Pieces

Requested == {"GET /", "GET /headers", "other"}
Pieces == Requested \cup {"header", "noColon", "char1", "char2", "CRLF1", "CRLF2"}
Replaced == "U+FFFD"

ASSUME SendingsAssumption == Sendings \subseteq Seq(Pieces)

VARIABLES
  sent, arrived,   \* what each client sends, and how much of it has arrived
  requestBuffer, handled,
  responses,         \* what was written to the connection
  connection,
  split              \* history: a chunk ended inside a character

warmUpVars == <<sent, arrived, requestBuffer, handled, responses, connection, split>>

WarmUpTypeOK ==
  /\ sent \in [Connections -> Sendings]
  /\ arrived \in [Connections -> Nat]
  /\ requestBuffer \in [Connections -> Seq(Pieces \cup {Replaced})]
  /\ handled \in [Connections -> BOOLEAN]
  /\ responses \in [Connections -> Seq([status : {200, 400, 404}, body : Seq(Pieces \cup {Replaced})])]
  /\ connection \in [Connections -> {"open", "ended", "error"}]
  /\ split \in [Connections -> BOOLEAN]

WarmUpInit ==
  /\ sent \in [Connections -> Sendings]
  /\ arrived = [k \in Connections |-> 0]
  /\ requestBuffer = [k \in Connections |-> <<>>]
  /\ handled = [k \in Connections |-> FALSE]
  /\ responses = [k \in Connections |-> <<>>]
  /\ connection = [k \in Connections |-> "open"]
  /\ split = [k \in Connections |-> FALSE]

-----------------------------------------------------------------------------
(* chunk.toString("utf8"): a byte whose other byte is not in the chunk is     *)
(* replaced.                                                                   *)
Decoded(chunk) ==
  [i \in DOMAIN chunk |->
     IF \/ chunk[i] = "char1" /\ (i = Len(chunk) \/ chunk[i + 1] # "char2")
        \/ chunk[i] = "char2" /\ (i = 1 \/ chunk[i - 1] # "char1")
     THEN Replaced ELSE chunk[i]]

(* The index of the first empty line, and what is before it. *)
\* HeaderEnds with a fault, for the checks.
HeaderEndsLast(text) ==
  {i \in 1..Len(text) : text[i] = "CRLF1" /\ i + 1 = Len(text) /\ text[i + 1] = "CRLF2"}
HeaderEnds(text) ==
  {i \in 1..(Len(text) - 1) : text[i] = "CRLF1" /\ text[i + 1] = "CRLF2"}
HeaderSection(text) ==
  SubSeq(text, 1, (CHOOSE i \in HeaderEnds(text) : \A j \in HeaderEnds(text) : i <= j) - 1)

(* parseRequest throws on a header line without a colon: 400.  The request     *)
(* line may be anything, even missing; /headers answers with the headers as     *)
(* they were parsed.                                                           *)
Respond(section) ==
  IF \E i \in 2..Len(section) : section[i] \in Requested \cup {"noColon"}
  THEN [status |-> 400, body |-> <<>>]
  ELSE IF section # <<>> /\ section[1] = "GET /headers"
  THEN [status |-> 200, body |-> Tail(section)]
  ELSE [status |-> IF section # <<>> /\ section[1] = "GET /" THEN 200 ELSE 404, body |-> <<>>]

(* The data event: ignored once a request was handled, a request begins and   *)
(* ends with its headers, whatever follows.                                    *)
Data(k, n) ==
  LET chunk == SubSeq(sent[k], arrived[k] + 1, arrived[k] + n)
      buffer == requestBuffer[k] \o Decoded(chunk)
  IN
  /\ connection[k] = "open" /\ arrived[k] + n <= Len(sent[k])
  /\ arrived' = [arrived EXCEPT ![k] = @ + n]
  /\ split' = [split EXCEPT ![k] = @ \/ Last(chunk) = "char1"]
  /\ IF handled[k] THEN UNCHANGED <<requestBuffer, handled, responses>>
     ELSE /\ requestBuffer' = [requestBuffer EXCEPT ![k] = buffer]
          /\ IF HeaderEnds(buffer) = {} THEN UNCHANGED <<handled, responses>>
             ELSE /\ handled' = [handled EXCEPT ![k] = TRUE]
                  /\ responses' = [responses EXCEPT ![k] =
                       Append(@, Respond(HeaderSection(buffer)))]
  /\ UNCHANGED <<sent, connection>>

(* The client ends or resets the connection, mid-request too. *)
SocketEvent(k) ==
  /\ connection[k] = "open"
  /\ connection' \in {[connection EXCEPT ![k] = "ended"], [connection EXCEPT ![k] = "error"]}
  /\ UNCHANGED <<sent, arrived, requestBuffer, handled, responses, split>>

WarmUpNext ==
  \E k \in Connections :
    \/ \E n \in 1..(Len(sent[k]) - arrived[k]) : Data(k, n)
    \/ SocketEvent(k)

WarmUpSpec == WarmUpInit /\ [][WarmUpNext]_warmUpVars

-----------------------------------------------------------------------------
(* However the bytes are cut, a connection gets its one response as soon as   *)
(* its first empty line has arrived, and the response is the one the uncut     *)
(* bytes would get; only the echo of a character that was cut differs, and a   *)
(* cut never changes the status.                                               *)
CutsDoNotMatter ==
  \A k \in Connections :
    LET so_far == SubSeq(sent[k], 1, arrived[k]) IN
    /\ Len(responses[k]) = IF HeaderEnds(so_far) = {} THEN 0 ELSE 1
    /\ responses[k] # <<>> =>
         LET whole == Respond(HeaderSection(Decoded(sent[k]))) IN
         /\ responses[k][1].status = whole.status
         /\ split[k] \/ responses[k][1] = whole

(* What was read is what arrived until the request was handled, decoded piece *)
(* by piece; only a cut character may differ from the uncut one's decoding.    *)
Uncut(k) == Decoded(sent[k])
CutAt(k, i) ==
  split[k] /\ {requestBuffer[k][i], Uncut(k)[i]} \subseteq {"char1", "char2", Replaced}
BufferIsDecoded ==
  \A k \in Connections :
    /\ arrived[k] <= Len(sent[k]) /\ Len(requestBuffer[k]) <= arrived[k]
    /\ ~handled[k] => Len(requestBuffer[k]) = arrived[k]
    /\ \A i \in 1..Len(requestBuffer[k]) : requestBuffer[k][i] = Uncut(k)[i] \/ CutAt(k, i)
    /\ arrived[k] > 0 /\ sent[k][arrived[k]] = "char1" => split[k]
    /\ handled[k] <=> HeaderEnds(requestBuffer[k]) # {}
    /\ responses[k] = IF handled[k] THEN <<Respond(HeaderSection(requestBuffer[k]))>> ELSE <<>>

WarmUpInv == WarmUpTypeOK /\ CutsDoNotMatter /\ BufferIsDecoded
=============================================================================
