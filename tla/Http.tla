-------------------------------- MODULE Http --------------------------------
(***************************************************************************)
(* The web server of ch04-07: one detached thread for each connection takes *)
(* what the first recv gives for the request, routes it by its first line,  *)
(* writes the reply in three parts and closes.  Two dynamic pages write to  *)
(* the LED device under a mutex.  Clients and files are external.           *)
(***************************************************************************)
EXTENDS Naturals, Sequences, FiniteSets

CONSTANTS Connections,
          Pages,      \* what is asked for
          MaxHangups  \* bound: clients that close before they have the reply

VARIABLES page,    \* of every connection: what its client asks for
          pc,      \* of every connection and its thread
          sent,    \* the parts of the reply that were written
          whole,   \* the first recv gave the whole request
          open,    \* the client still has the connection open
          mutex,   \* led_mutex
          light,   \* the LED
          told,    \* history: what the page that used the LED last answers
          dead,    \* the process was ended by SIGPIPE
          hangups

httpVars == <<page, pc, sent, whole, open, mutex, light, told, dead, hangups>>

LedPages == {"/led_push_on.json", "/led_push_off.json"}
Dynamic == LedPages \cup {"/submit.json", "/other.json"}
Init ==
  /\ page \in [Connections -> Pages] /\ pc = [c \in Connections |-> "out"]
  /\ sent = [c \in Connections |-> <<>>] /\ whole = [c \in Connections |-> TRUE]
  /\ open = [c \in Connections |-> TRUE]
  /\ mutex = "free" /\ light \in {0, 1} /\ told = "nothing" /\ dead = FALSE /\ hangups = 0

Goes(c, state) == pc' = [pc EXCEPT ![c] = state]

\* The client connects; run accepts and makes a thread.
Accept(c) ==
  /\ ~dead /\ pc[c] = "out" /\ Goes(c, "recv")
  /\ UNCHANGED <<page, sent, whole, open, mutex, light, told, dead, hangups>>

HangUp(c) ==
  /\ ~dead /\ pc[c] \notin {"out", "closed"} /\ open[c]
  /\ hangups < MaxHangups /\ hangups' = hangups + 1
  /\ open' = [open EXCEPT ![c] = FALSE]
  /\ UNCHANGED <<page, pc, sent, whole, mutex, light, told, dead>>

(***************************************************************************)
(* recv_process_task: one recv.  Nothing, or an error, only closes; a       *)
(* request that comes in pieces is taken for its first piece, whose first   *)
(* line then lacks a word, so that process answers 404.                     *)
(***************************************************************************)
Recv(c) ==
  /\ ~dead /\ pc[c] = "recv"
  /\ \/ open[c] /\ Goes(c, "route") /\ UNCHANGED whole
     \/ open[c] /\ Goes(c, "404") /\ whole' = [whole EXCEPT ![c] = FALSE]
     \/ ~open[c] /\ Goes(c, "close") /\ UNCHANGED whole
  /\ UNCHANGED <<page, sent, open, mutex, light, told, dead, hangups>>

\* decode_request_line and the choice between a function, a file and the error page.
Route(p) ==
  CASE p \in LedPages       -> "led"
    [] p \in Dynamic        -> "dynamic"
    [] p = "/index.html"    -> "static"
    [] OTHER                -> "404"
Process(c) ==
  /\ ~dead /\ pc[c] = "route" /\ Goes(c, Route(page[c]))
  /\ UNCHANGED <<page, sent, whole, open, mutex, light, told, dead, hangups>>

-----------------------------------------------------------------------------
(***************************************************************************)
(* led_process.  Both pages call it with 1.                                 *)
(***************************************************************************)
Status(p) == 1
Answer(p) == IF p = "/led_push_on.json" THEN "led on" ELSE "led off"

LedOpen(c) ==
  /\ ~dead /\ pc[c] = "led" /\ mutex = "free"
  /\ \/ Goes(c, "write") /\ mutex' = c
     \/ Goes(c, "dynamic") /\ UNCHANGED mutex
  /\ UNCHANGED <<page, sent, whole, open, light, told, dead, hangups>>
LedWrite(c) ==
  /\ ~dead /\ pc[c] = "write" /\ Goes(c, "dynamic")
  /\ light' = Status(page[c]) /\ told' = Answer(page[c]) /\ mutex' = "free"
  /\ UNCHANGED <<page, sent, whole, open, dead, hangups>>

-----------------------------------------------------------------------------
(***************************************************************************)
(* The reply: a status line, the other header lines, the body.  The result  *)
(* of write is not looked at; writing to a client that is gone ends the     *)
(* process.  A file that cannot be read to its end is followed by the whole *)
(* error page.                                                              *)
(***************************************************************************)
Reply(state) == IF state = "404" THEN <<"404", "html header", "not found">>
                ELSE IF state = "static" THEN <<"200", "file header", "file">>
                ELSE <<"200", "json header", "json">>
Written(c) == Len(sent[c]) % 3
(* Mutant: the function of a dynamic page writes its answer only.           *)
Send_BodyOnly(c) ==
  /\ ~dead /\ pc[c] \in {"dynamic", "static", "404"}
  /\ sent' = [sent EXCEPT ![c] = Append(@, Reply(pc[c])[3])]
  /\ Goes(c, "close") /\ UNCHANGED <<page, whole, open, mutex, light, told, dead, hangups>>
Send(c) ==
  /\ ~dead /\ pc[c] \in {"dynamic", "static", "404"}
  /\ \/ /\ sent' = [sent EXCEPT ![c] = Append(@, Reply(pc[c])[Written(c) + 1])]
        /\ \/ Written(c) < 2 /\ UNCHANGED pc
           \/ Written(c) = 2 /\ Goes(c, "close")
           \/ Written(c) = 2 /\ pc[c] = "static" /\ Goes(c, "404")
        /\ UNCHANGED dead
     \/ ~open[c] /\ dead' = TRUE /\ UNCHANGED <<pc, sent>>
  /\ UNCHANGED <<page, whole, open, mutex, light, told, hangups>>

Close(c) ==
  /\ ~dead /\ pc[c] = "close" /\ Goes(c, "closed")
  /\ UNCHANGED <<page, sent, whole, open, mutex, light, told, dead, hangups>>

Thread(c) == Recv(c) \/ Process(c) \/ LedOpen(c) \/ LedWrite(c) \/ Send(c) \/ Close(c)
Next == \E c \in Connections : Accept(c) \/ HangUp(c) \/ Thread(c)
Spec == Init /\ [][Next]_httpVars
FairSpec == Spec /\ \A c \in Connections : WF_httpVars(Thread(c))

-----------------------------------------------------------------------------
(***************************************************************************)
(* http_server and http_engine: every connection is closed in the end, even *)
(* when others use the LED, unless a client that hung up has ended the      *)
(* process; and by then it had its reply, once, whole and in order, from    *)
(* the page that was asked for.                                             *)
(***************************************************************************)
Expected(c) ==
  IF ~whole[c] THEN {Reply("404")}
  ELSE CASE page[c] \in Dynamic     -> {Reply("dynamic")}
         [] page[c] = "/index.html" -> {Reply("static"), Reply("static") \o Reply("404")}
         [] OTHER                   -> {Reply("404")}
ReplyIsWhole ==
  \A c \in Connections :
    pc[c] = "closed" => sent[c] \in Expected(c) \/ (~open[c] /\ sent[c] = <<>>)
ConnectionsEnd ==
  /\ \A c \in Connections : pc[c] = "recv" ~> pc[c] = "closed" \/ dead
  /\ []ReplyIsWhole

(***************************************************************************)
(* ch04-07/main.cpp:46 answers "led off" to /led_push_off.json, which the   *)
(* button LED_OFF of www/index.html asks for: after it the LED is off.      *)
(***************************************************************************)
LedAsTold == told = "led off" => light = 0
=============================================================================
