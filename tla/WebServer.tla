----------------------------- MODULE WebServer ------------------------------
(***************************************************************************)
(* The web example's server: main's loop, the socket interrupts it polls   *)
(* for, and Web_Server, which answers what came in on a socket and closes  *)
(* it.  The library that keeps the sockets is not part of the source: it   *)
(* may accept connections, deliver data, take any part of what is sent,    *)
(* and report the end of a connection, but only when the loop calls it.    *)
(*                                                                         *)
(* What a browser sends is a sequence of requests, of which the program    *)
(* sees the words GET and POST; "also" are such words elsewhere in a       *)
(* request, in a file's name or in a form.                                 *)
(***************************************************************************)
EXTENDS Naturals, Sequences, FiniteSets, SequencesExt

CONSTANTS
  MaxSockets,   \* WCHNET_MAX_SOCKET_NUM
  Template,     \* the pages by name, sequences of words, some of them parameters
  Value,        \* Para_Basic, Para_Port, Para_Login: what stands for a parameter
  TypeOf,       \* PTYPE of a name, by its ending: every name but "/"
  Received,     \* what may come in at once: sequences of [method, name, also]
  MaxTries,     \* how often Data_Send tries
  MaxReceived, MaxTimeouts   \* bounds

Sockets == 0 .. MaxSockets - 1
Posted == {"main", "success"}       \* the pages that can be posted to
Shown == DOMAIN Template \ {"success"}
Methods == {"GET", "POST"}

WebServerAssumption ==
  /\ MaxSockets \in Nat /\ MaxSockets > 2 /\ MaxTries \in Nat \ {0}
  /\ {"HTTP", "main", "success"} \subseteq DOMAIN Template
  /\ DOMAIN Template \subseteq DOMAIN TypeOf
  /\ \A name \in DOMAIN Template : Template[name] \in Seq(ToSet(Template[name]))
  /\ \A word \in DOMAIN Value : Value[word] \in Seq(ToSet(Value[word]) \ DOMAIN Value)
  /\ Received \subseteq Seq([method : Methods, name : DOMAIN TypeOf, also : SUBSET Methods]) \ {<<>>}
  /\ MaxReceived \in Nat /\ MaxTimeouts \in Nat

VARIABLES
  mode,         \* Port_CfgBuf.mode: "server" or "client"
  sockets,      \* what each socket is; "free" if it is none
  ids,          \* SocketIdForListen and SocketId, [listen, cfg]
  ints,         \* ints[i]: the interrupts of socket i that were not taken yet
  incoming,     \* what came in on it
  doing,        \* where the program is
  cur, stat,    \* the socket that is looked at, and its interrupts
  buffer,       \* HTTPDataBuffer: [requests, cleared]; the first method is wiped out
  reqnum, pagelen,
  html,         \* HtmlBuffer
  sending,      \* Data_Send: [data, tries]
  head,         \* httpweb: [type, len]
  method,       \* http_request.METHOD
  answers,      \* what was sent for the buffer, answer by answer: [head, page]
  gaveUp,       \* a part of it was not taken (these two of the history)
  received, timeouts   \* counted for the bounds

loopVars == <<ids, sockets, ints, incoming, cur, stat>>
serverVars == <<buffer, reqnum, pagelen, html, sending, head, method, answers, gaveUp>>
boundVars == <<received, timeouts>>
vars == <<mode, doing, loopVars, serverVars, boundVars>>

-----------------------------------------------------------------------------
(* Mistake: none but the first parameter of a page is replaced.            *)
Refresh_HtmlFirst(name) ==
  LET first == {n \in DOMAIN Template[name] : Template[name][n] \in DOMAIN Value}
  IN  FlattenSeq([n \in DOMAIN Template[name] |->
        IF n \in first /\ \A m \in first : n <= m THEN Value[Template[name][n]]
        ELSE <<Template[name][n]>>])

(* Refresh_Html: each parameter of a page is replaced by its value.        *)
Refresh_Html(name) ==
  FlattenSeq([n \in DOMAIN Template[name] |->
    IF Template[name][n] \in DOMAIN Value THEN Value[Template[name][n]]
    ELSE <<Template[name][n]>>])

(* ParseHttpRequest: any word in the buffer decides the method, GET before *)
(* POST, and the name begins where it would in a first line of that method.*)
MethodsIn(b) ==
  (IF b.cleared THEN {} ELSE {b.requests[1].method})
    \cup {b.requests[n].method : n \in DOMAIN b.requests \ {1}}
    \cup UNION {b.requests[n].also : n \in DOMAIN b.requests}

MethodFound(b) ==
  IF "GET" \in MethodsIn(b) THEN "GET" ELSE IF "POST" \in MethodsIn(b) THEN "POST" ELSE "none"

(* A name read one character late is none of the pages', but has its       *)
(* ending; the "/" of a root that is read early hides what follows it.     *)
Parsed(b) ==
  LET first == b.requests[1]
      found == MethodFound(b)
      Late == [page |-> "late", type |-> TypeOf[first.name]]
      Exact == [page |-> first.name, type |-> TypeOf[first.name]]
  IN  IF found = "GET" /\ first.method = "POST" /\ first.name = "HTTP"
      THEN [page |-> "late", type |-> "ERR"]
      ELSE IF found = "POST" /\ first.method = "GET" /\ first.name # "HTTP" THEN Late ELSE Exact

(* strFind for the four words.                                             *)
CountWords(b) ==
  Len(b.requests) + Cardinality(UNION {{n} \X b.requests[n].also : n \in DOMAIN b.requests})

NoData == [data |-> <<>>, tries |-> 0]
NoHead == [type |-> "ERR", len |-> 0]
Nothing == [requests |-> <<>>, cleared |-> FALSE]

(* WCHNET_SocketCreat.                                                     *)
Free == {i \in Sockets : sockets[i] = "free"}
FirstFree == CHOOSE i \in Free : \A j \in Free : i <= j

-----------------------------------------------------------------------------
Init ==
  /\ mode \in {"server", "client"}
  /\ sockets = [i \in Sockets |-> "free"]
  /\ ids = [listen |-> 0, cfg |-> 0]
  /\ ints = [i \in Sockets |-> {}] /\ incoming = [i \in Sockets |-> <<>>]
  /\ doing = "listen" /\ cur = 0 /\ stat = {}
  /\ buffer = Nothing /\ reqnum = 0 /\ pagelen = 0 /\ html = <<>>
  /\ sending = NoData /\ head = NoHead
  /\ method = "none" /\ answers = <<>> /\ gaveUp = FALSE
  /\ received = 0 /\ timeouts = 0

(* WCHNET_CreateTcpSocketListen.                                           *)
CreateTcpSocketListen ==
  /\ doing = "listen"
  /\ sockets' = [sockets EXCEPT ![FirstFree] = "listener"]
  /\ ids' = [ids EXCEPT !.listen = FirstFree]
  /\ doing' = "configure"
  /\ UNCHANGED <<mode, ints, incoming, cur, stat, serverVars, boundVars>>

(* WCHNET_CreateCfgSocket; without a free socket it uses the last one once *)
(* more, which the library refuses.                                        *)
CreateCfgSocket ==
  IF Free = {} THEN UNCHANGED <<sockets, ids>>
  ELSE /\ sockets' = [sockets EXCEPT ![FirstFree] = mode]
       /\ ids' = [ids EXCEPT !.cfg = FirstFree]

Configure ==
  /\ doing = "configure"
  /\ CreateCfgSocket
  /\ doing' = "loop"
  /\ UNCHANGED <<mode, ints, incoming, cur, stat, serverVars, boundVars>>

-----------------------------------------------------------------------------
(* WCHNET_MainTask: the library accepts a connection, ...                  *)
Raise(i, event) == ints' = [ints EXCEPT ![i] = @ \cup {event}]

Accept ==
  /\ doing = "loop"
  /\ \E i \in Free : /\ ints[i] = {}
                     /\ sockets' = [sockets EXCEPT ![i] = "http"]
                     /\ Raise(i, "connect")
  /\ UNCHANGED <<mode, doing, ids, incoming, cur, stat, serverVars, boundVars>>

(* ... takes in data, which only the server looks at, ...                  *)
Deliver ==
  /\ doing = "loop" /\ received < MaxReceived
  /\ \E i \in Sockets : \E requests \in IF sockets[i] = "http" THEN Received ELSE {<<>>} :
       /\ sockets[i] \in {"http", "client"} /\ incoming[i] = <<>>
       /\ incoming' = [incoming EXCEPT ![i] = requests]
       /\ Raise(i, "recv")
  /\ received' = received + 1
  /\ UNCHANGED <<mode, doing, sockets, ids, cur, stat, serverVars, timeouts>>

(* ... and gives a connection up, with what was not read.                  *)
Lose(event) ==
  /\ doing = "loop"
  /\ event = "timeout" => timeouts < MaxTimeouts
  /\ timeouts' = IF event = "timeout" THEN timeouts + 1 ELSE timeouts
  /\ \E i \in Sockets : /\ sockets[i] \in {"http", "client"}
                        /\ sockets' = [sockets EXCEPT ![i] = "free"]
                        /\ incoming' = [incoming EXCEPT ![i] = <<>>]
                        /\ Raise(i, event)
  /\ UNCHANGED <<mode, doing, ids, cur, stat, serverVars, received>>

-----------------------------------------------------------------------------
(* WCHNET_HandleGlobalInt: the sockets in turn; WCHNET_GetSocketInt takes  *)
(* a socket's interrupts.  Those without any are passed over.              *)
Scan ==
  LET left == {i \in cur .. MaxSockets - 1 : ints[i] # {}}
      i == CHOOSE n \in left : \A m \in left : n <= m
  IN  /\ doing = "scan" \/ (doing = "loop" /\ left # {})
      /\ IF left = {} THEN doing' = "loop" /\ cur' = 0 /\ UNCHANGED <<stat, ints>>
         ELSE /\ cur' = i /\ stat' = ints[i]
              /\ ints' = [ints EXCEPT ![i] = {}]
              /\ doing' = "recv"
      /\ UNCHANGED <<mode, sockets, ids, incoming, serverVars, boundVars>>

(* WCHNET_HandleSockInt: what came in on the server's port is served; what *)
(* came in on another is read and left alone.                              *)
HandleRecv ==
  /\ doing = "recv"
  /\ incoming' = [incoming EXCEPT ![cur] = <<>>]
  /\ IF "recv" \in stat /\ sockets[cur] = "http"
     THEN /\ buffer' = [requests |-> incoming[cur], cleared |-> FALSE]
          /\ reqnum' = CountWords(buffer')
          /\ doing' = "serve"
     ELSE UNCHANGED <<buffer, reqnum>> /\ doing' = "events"
  /\ UNCHANGED <<mode, sockets, ids, ints, cur, stat, pagelen, html, sending, head, method,
                 answers, gaveUp, boundVars>>

(* A connection that timed out, whichever it was, makes the program create *)
(* the configured socket; the other events are only printed.               *)
HandleEvents ==
  /\ doing = "events"
  /\ IF "timeout" \in stat THEN CreateCfgSocket ELSE UNCHANGED <<sockets, ids>>
  /\ cur' = cur + 1 /\ stat' = {} /\ doing' = "scan"
  /\ UNCHANGED <<mode, ints, incoming, serverVars, boundVars>>

-----------------------------------------------------------------------------
(* Web_Server: a request is parsed, its page put into HtmlBuffer, and the  *)
(* header made.  A page that is not known leaves both as they were.        *)
Request ==
  LET found == MethodFound(buffer)
      parsed == Parsed(buffer)
  IN  /\ doing = "serve" /\ reqnum > 0
      /\ reqnum' = reqnum - 1
      /\ method' = found
      /\ buffer' = [buffer EXCEPT !.cleared = found # "none" \/ @]
      /\ IF found = "none" THEN UNCHANGED <<doing, html, pagelen, head, sending>>
         ELSE /\ IF parsed.page \in (IF found = "GET" THEN Shown ELSE Posted)
                 THEN html' = Refresh_Html(parsed.page) /\ pagelen' = Len(html')
                 ELSE UNCHANGED <<html, pagelen>>
              /\ head' = [type |-> parsed.type, len |-> pagelen']
              /\ sending' = [data |-> <<"head">>, tries |-> MaxTries]
              /\ doing' = "header"
      /\ answers' = IF found = "none" THEN answers
                    ELSE Append(answers, [head |-> head', sent |-> <<>>])
      /\ UNCHANGED <<mode, loopVars, gaveUp, boundVars>>

(* Data_Send: WCHNET_SocketSend takes a part of what is left, nothing if   *)
(* the socket is closed; it is tried again, but not for ever.              *)
Data_Send ==
  LET more == Len(sending.data)
  IN  /\ doing \in {"header", "page"}
      /\ \E n \in 0 .. (IF sockets[cur] = "free" THEN 0 ELSE more) :
           LET rest == SubSeq(sending.data, n + 1, more)
               ends == sending.tries = 1 \/ rest = <<>>
           IN  /\ answers' = [answers EXCEPT ![Len(answers)].sent =
                                @ \o SubSeq(sending.data, 1, n)]
               /\ gaveUp' = (gaveUp \/ (ends /\ rest # <<>>))
               /\ IF ~ends
                  THEN /\ sending' = [data |-> rest, tries |-> sending.tries - 1]
                       /\ UNCHANGED doing
                  ELSE /\ doing' = IF doing = "header" THEN "page" ELSE "sent"
                       /\ sending' = [data |-> SubSeq(html, 1, pagelen), tries |-> MaxTries]
      /\ UNCHANGED <<mode, loopVars, buffer, reqnum, pagelen, html, head, method, boundVars>>

(* What was posted closes the socket at once; the loop goes on.            *)
Sent ==
  /\ doing = "sent"
  /\ doing' = "serve"
  /\ sockets' = IF method = "POST" THEN [sockets EXCEPT ![cur] = "free"] ELSE sockets
  /\ UNCHANGED <<mode, ids, ints, incoming, cur, stat, serverVars, boundVars>>

(* The socket is closed, once more if need be, and the buffer cleared.     *)
(* What is not looked at any more takes its first value.                   *)
Close ==
  /\ doing = "serve" /\ reqnum = 0
  /\ sockets' = [sockets EXCEPT ![cur] = "free"]
  /\ buffer' = Nothing
  /\ doing' = "events"
  /\ pagelen' = 0 /\ sending' = NoData /\ head' = NoHead /\ method' = "none"
  /\ answers' = <<>> /\ gaveUp' = FALSE
  /\ UNCHANGED <<mode, ids, ints, incoming, cur, stat, reqnum, html, boundVars>>

Library == Accept \/ Deliver \/ Lose("disconnect") \/ Lose("timeout")
Program ==
  \/ CreateTcpSocketListen \/ Configure
  \/ Scan \/ HandleRecv \/ HandleEvents
  \/ Request \/ Data_Send \/ Sent \/ Close
Next == Library \/ Program

Spec == Init /\ [][Next]_vars

FairSpec == Spec /\ WF_vars(Program)

-----------------------------------------------------------------------------
(* A request that comes alone, with no word of another in it, is answered  *)
(* once, with its own page and its length, or with no page if there is     *)
(* none, whatever was served before, unless the peer did not take it.      *)
Complete == doing = "serve" /\ reqnum = 0
AloneRight ==
  Complete /\ Len(buffer.requests) = 1 /\ buffer.requests[1].also = {} =>
    LET r == buffer.requests[1]
        page == IF r.name \in (IF r.method = "GET" THEN Shown ELSE Posted)
                THEN Refresh_Html(r.name) ELSE <<>>
    IN  /\ Len(answers) = 1
        /\ answers[1].head = [type |-> TypeOf[r.name], len |-> Len(page)]
        /\ ~gaveUp => answers[1].sent = <<"head">> \o page

(* Each further word is answered once more, and no page that is sent is    *)
(* shorter or longer than its header says, unless the peer did not take it.*)
AllAnswered ==
  /\ Complete => Len(answers) <= CountWords(buffer)
  /\ Complete /\ ~gaveUp => \A n \in DOMAIN answers :
       Len(answers[n].sent) = 1 + answers[n].head.len
  /\ Complete /\ Cardinality({buffer.requests[n].method : n \in DOMAIN buffer.requests}) = 1
       => Len(answers) >= Len(buffer.requests)

(* No page is sent that has a parameter left in it.                        *)
ParametersFilled == ToSet(html) \cap DOMAIN Value = {}

(* What was answered is not left open or in the buffer, the server goes on *)
(* listening, and a socket that comes to be used is in the table.          *)
SocketsRight ==
  /\ doing = "events" => sockets[cur] # "http" \/ "recv" \notin stat
  /\ doing \in {"loop", "scan", "events"} => buffer = Nothing
  /\ doing # "listen" => sockets[ids.listen] = "listener"
  /\ doing \in {"serve", "header", "page", "sent"} => sockets[cur] \in {"http", "free"}

ServerInv == AloneRight /\ AllAnswered /\ ParametersFilled /\ SocketsRight

(* The loop is always come back to, though the peer takes nothing.         *)
LoopsOn == []<>(doing = "loop")
=============================================================================
