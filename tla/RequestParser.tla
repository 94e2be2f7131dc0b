---------------------------- MODULE RequestParser ----------------------------
(***************************************************************************)
(* WebServer_process_request: a request comes in pieces of any size and is     *)
(* taken apart byte by byte. A byte is a symbol: a space, an end of line, a     *)
(* letter; and one symbol stands for the field that gives the length, one for  *)
(* that which gives the user, in front of a word that is copied with no limit.  *)
(***************************************************************************)
EXTENDS Integers, SequencesExt

CONSTANTS
    Requests,          \* [method, filename, lines, body]
    Fifo,              \* sizeof(str_fifo), in symbols; 50 bytes in the code
    Pool,              \* sizeof(data_pool); 100 in the code
    method_size, filename_size, content_size,
    auth_room          \* behind auth; 1 in the sketch. auth_size is not looked at

ASSUME RequestParserAssumption ==
    Fifo \in Nat /\ Fifo > 2 /\ {Pool, method_size, filename_size, content_size, auth_room} \subseteq Nat \ {0}

VARIABLES
    web,               \* "off", "read", or how it has returned
    request, taken,    \* the request, and how much of it has come
    parse              \* the local variables

web_vars == <<web, request, taken, parse>>

SP == "space"
CR == "CR"
LF == "LF"
Lengths == {"Content-Length: 1", "Content-Length: 2", "Content-Length: 3"}
LengthOf ==
    [field \in Lengths |->
        CASE field = "Content-Length: 1" -> 1
          [] field = "Content-Length: 2" -> 2
          [] field = "Content-Length: 3" -> 3]
AUTH == "Authorization: Basic "
Blank == {SP, CR, LF}
EndOfHead == <<CR, LF, CR, LF>>

\* What the client sends: a line is what it has in front of its end. The first lines of
\* a request, and all of it.
EndOfLine == <<CR, LF>>
Lines(r) ==
    LET first[i \in 0..Len(r.lines)] ==
            IF i = 0 THEN <<>> ELSE first[i - 1] \o (r.lines[i] \o EndOfLine)
    IN first
RequestLine(r) == r.method \o <<SP>> \o r.filename \o <<SP>>
Bytes(r) == RequestLine(r) \o Lines(r)[Len(r.lines)] \o EndOfLine \o r.body

\* A request has a method and a name of one word each, and at least one line: the first goes
\* on with the version of the protocol. No line is empty.
Whole(r, Symbols) ==
    /\ {SP, CR, LF} \subseteq Symbols
    /\ r.method \in Seq(Symbols \ {SP}) /\ r.filename \in Seq(Symbols \ {SP})
    /\ r.lines \in Seq(Seq(Symbols \ {CR, LF}) \ {<<>>}) /\ r.lines # <<>>
    /\ r.body \in Seq(Symbols)

ASSUME RequestsAssumption == \A r \in Requests : Whole(r, Range(Bytes(r)))

-----------------------------------------------------------------------------
Start == [state |-> "METHOD", method |-> <<>>, filename |-> <<>>, content |-> <<>>,
          str_fifo |-> <<>>, content_head |-> <<>>, content_length |-> 0,
          spilled |-> FALSE, returned |-> FALSE]

LastOf(s, n) == SubSeq(s, IF Len(s) > n THEN Len(s) - n + 1 ELSE 1, Len(s))
Fit(s, b, size) == IF Len(s) < size THEN Append(s, b) ELSE s

\* Where a line tells a length, and the length that is taken from it: the first.
Told(line) == {i \in DOMAIN line : line[i] \in Lengths}
LengthIn(line) == LengthOf[line[Min(Told(line))]]

\* What is behind auth is written over: sscanf copies the word that follows the first AUTH of
\* a line, and a NUL, however long it is.
AuthSpills(line) ==
    \E i, j \in DOMAIN line :
        /\ line[i] = AUTH /\ \A k \in 1..(i - 1) : line[k] # AUTH
        /\ i < j /\ \A k \in (i + 1)..(j - 1) : line[k] \in Blank
        /\ \A k \in j..(j + auth_room - 1) : k \in DOMAIN line /\ line[k] \notin Blank

\* str_fifo: at the end of a line, the length that stands in what there is of it.
\* Variant: the line is not cleared.
LineKept(p, line) == LastOf(line, Fifo - 1)
LineCleared(p, line) == <<>>

Line(p, b) ==
    LET line == LastOf(Append(p.str_fifo, b), Fifo)
        ends == Len(line) > 1 /\ line[Len(line) - 1] = CR /\ b = LF
    IN IF ends
       THEN [p EXCEPT !.str_fifo = LineCleared(p, line), !.spilled = @ \/ AuthSpills(line),
                      !.content_length = IF Told(line) = {} THEN @ ELSE LengthIn(line)]
       ELSE [p EXCEPT !.str_fifo = LastOf(line, Fifo - 1)]

\* Once the head has ended each byte is content, until there is enough of it: it is the
\* one behind that ends the function.
Content(p, b) ==
    IF p.content_head # EndOfHead THEN [p EXCEPT !.content_head = Append(LastOf(@, 3), b)]
    ELSE IF Len(p.content) < content_size /\ Len(p.content) < p.content_length
    THEN [p EXCEPT !.content = Append(@, b)]
    ELSE [p EXCEPT !.returned = TRUE]

Byte1(p, b) ==
    CASE p.returned -> p
      [] p.state = "METHOD" ->
            IF b = SP THEN [p EXCEPT !.state = "FILENAME"]
            ELSE [p EXCEPT !.method = Fit(@, b, method_size)]
      [] p.state = "FILENAME" ->
            IF b = SP THEN [p EXCEPT !.state = "CONTENT"]
            ELSE [p EXCEPT !.filename = Fit(@, b, filename_size)]
      [] OTHER -> Content(Line(p, b), b)

\* The loop over the bytes of data_pool
Parsed(p, data_pool) ==
    LET after[i \in 0..Len(data_pool)] ==
            IF i = 0 THEN p ELSE Byte1(after[i - 1], data_pool[i])
    IN after[Len(data_pool)]

\* One WebServer_get_request: some of what the client has sent. What becomes of memory behind
\* auth depends on what the program keeps there: nothing is said of a request from then on.
Receive ==
    /\ web = "read"
    /\ \E n \in 1..Pool :
        /\ taken + n <= Len(Bytes(request))
        /\ taken' = taken + n
        /\ parse' = Parsed(parse, SubSeq(Bytes(request), taken + 1, taken + n))
    /\ web' = IF parse'.spilled THEN "spilled" ELSE IF parse'.returned THEN "complete" ELSE "read"
    /\ UNCHANGED request

\* Nothing for WEBSERVER_REQUEST_TIMEOUT, which returns 0 as well; or an error
GiveUp ==
    /\ web = "read"
    /\ web' \in {"timeout", "error"}
    /\ UNCHANGED <<request, taken, parse>>

-----------------------------------------------------------------------------
WebInit(on) ==
    /\ taken = 0 /\ parse = Start
    /\ IF on THEN web = "read" /\ request \in Requests ELSE web = "off" /\ request = <<>>

WebNext == Receive \/ GiveUp

-----------------------------------------------------------------------------
\* Lines the buffer holds give the length of the body; the last one that does counts.
Telling(r, n) == {i \in 1..n : Told(r.lines[i]) # {}}
DeclaredBy(r, n) == IF Telling(r, n) = {} THEN 0 ELSE LengthIn(r.lines[Max(Telling(r, n))])
Declared(r) == DeclaredBy(r, Len(r.lines))
Plain(r) ==
    /\ \A i \in DOMAIN r.lines : Len(r.lines[i]) <= Fifo - 2
    /\ \A i \in DOMAIN r.body : r.body[i] \notin Lengths \cup {AUTH}

\* However the request is cut into pieces, nothing is taken for a part of it that is not:
\* what there is of the method, the name and the content is the beginning of them, as long as
\* nothing has been written behind auth.
PartsOfRequest ==
    web \notin {"off", "spilled"} =>
        /\ IsPrefix(parse.method, request.method)
        /\ IsPrefix(parse.filename, request.filename)
        /\ IsPrefix(parse.content, request.body)

\* A request taken for complete is: with its lines no longer than the buffer, and neither
\* field in its body, the content is all that is declared or that there is room for.
Least(a, b) == IF a < b THEN a ELSE b
CompleteIsWhole ==
    web = "complete" /\ Plain(request) =>
        /\ Len(parse.method) = Least(method_size, Len(request.method))
        /\ Len(parse.filename) = Least(filename_size, Len(request.filename))
        /\ Len(parse.content) = Least(content_size, Declared(request))

\* Memory behind auth is written over for no such request but one that has a line which
\* gives a word too long for it: never by a word that two lines or two pieces make up.
Modest(r) == \A i \in DOMAIN r.lines : ~AuthSpills(r.lines[i] \o EndOfLine)
SpilledByOneLine == web = "spilled" /\ Plain(request) => ~Modest(request)

\* WebServer_process_request takes a request apart right, in whatever pieces it comes, unless
\* the user it gives is longer than the room there is.
RequestRight == PartsOfRequest /\ CompleteIsWhole /\ SpilledByOneLine
=============================================================================
