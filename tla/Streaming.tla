------------------------------ MODULE Streaming ------------------------------
(***************************************************************************)
(* The streamed smart chat from end to end: the generator that tells each  *)
(* phase as it starts and ends (streaming.py) and the page that reads the  *)
(* events (admin_ui.py: sendChat, handleSSE).  The generator runs on the   *)
(* event loop and awaits nothing but the sending of an event, so a step is *)
(* from one event to the next; the network cuts what it sends into reads   *)
(* anywhere.  All streams are of one session with a name.                  *)
(***************************************************************************)
EXTENDS Naturals, Sequences, SequencesExt, FiniteSets

CONSTANTS
  Streams,      \* requests
  Pages,        \* those of them that the page makes; others read as they like
  Snippets,     \* ids of retrieved chunks
  Requests,     \* the sets of phases that requests ask for
  MaxWire       \* bound: lines that are sent and not read before the next event

VARIABLES
  stream,       \* what each generator is at
  wire,         \* the lines sent and not read
  seenPieces,   \* retrieved_chunk_ids of the session
  summary,      \* the cached summary of the session
  chatPage      \* what each page has read

streamVars == <<stream, wire, seenPieces, summary, chatPage>>

Phases == <<"sentiment", "classify", "hyde", "compress", "profile", "retrieve", "generate",
            "self_critique">>
Always == {"sentiment", "generate"}

ASSUME StreamAssumption == Requests \subseteq SUBSET ToSet(Phases)

\* Without a classification nothing needs retrieval, and a query is rewritten for it.
Sensible(request) ==
  Always \subseteq request /\ ({"hyde", "retrieve"} \cap request # {} => "classify" \in request)

Waiting ==
  [at |-> "waiting", todo |-> {}, open |-> FALSE, found |-> {}, took |-> "none", told |-> <<>>]

\* The steps the page shows: their names are contained in those of the phases.
PageSteps == ToSet(Phases) \ {"profile"}
Blank == [reading |-> TRUE, shows |-> FALSE, active |-> FALSE, cut |-> {}]

StreamInit ==
  /\ stream = [s \in Streams |-> Waiting] /\ wire = [s \in Pages |-> <<>>]
  /\ seenPieces = {} /\ summary = [cached |-> FALSE, made |-> 0]
  /\ chatPage = [s \in Pages |-> Blank]

\* _sse_event: the name, then the data and the empty line that ends it.
Lines(event) == <<<<"event", event>>, <<"data", event>>>>
Drained(s) == s \in Pages => Len(wire[s]) <= MaxWire

\* The generator goes on to the state given, and is held at its events.
Yields(s, to, events) ==
  /\ stream' = [stream EXCEPT ![s] = [to EXCEPT !.told = @ \o events]]
  /\ IF s \in Pages
       THEN wire' = [wire EXCEPT ![s] = @ \o FlattenSeq([i \in DOMAIN events |-> Lines(events[i])])]
       ELSE UNCHANGED wire

\* A message of the user without a content raises before the first event.
StartStream(s) ==
  /\ stream[s].at = "waiting"
  /\ \/ \E request \in Requests:
          /\ Sensible(request)
          /\ stream' = [stream EXCEPT ![s].at = "running",
                                      ![s].todo = request]
     \/ stream' = [stream EXCEPT ![s].at = "broken"]
  /\ UNCHANGED <<wire, seenPieces, summary, chatPage>>

\* In their order: those before it are not asked for or are over.
InPhase(s, phase) ==
  /\ stream[s].at = "running" /\ phase \in stream[s].todo
  /\ \A i, j \in DOMAIN Phases: Phases[j] = phase /\ i < j => Phases[i] \notin stream[s].todo
Ended(s, phase) == [stream[s] EXCEPT !.todo = @ \ {phase}, !.open = FALSE]

StartPhase(s) ==
  /\ \E i \in DOMAIN Phases:
       /\ InPhase(s, Phases[i]) /\ ~ stream[s].open /\ Drained(s)
       /\ Yields(s, [stream[s] EXCEPT !.open = TRUE], <<<<Phases[i], "started">>>>)
  /\ UNCHANGED <<seenPieces, summary, chatPage>>

\* Whatever raises in there is caught.
EndPhase(s) ==
  /\ \E phase \in {"sentiment", "classify", "hyde", "profile", "self_critique"}:
       InPhase(s, phase) /\ stream[s].open /\ Drained(s) /\ Yields(s, Ended(s, phase), <<<<phase, "done">>>>)
  /\ UNCHANGED <<seenPieces, summary, chatPage>>

\* The cached summary, or one that is made, kept if it has a text; or the model raises.
CompressStream(s) ==
  /\ InPhase(s, "compress") /\ stream[s].open /\ Drained(s)
  /\ \/ /\ summary.cached /\ UNCHANGED summary
        /\ Yields(s, [Ended(s, "compress") EXCEPT !.took = "cached"], <<<<"compress", "done">>>>)
     \/ /\ ~ summary.cached /\ summary' = [cached |-> TRUE, made |-> summary.made + 1]
        /\ Yields(s, [Ended(s, "compress") EXCEPT !.took = "made"], <<<<"compress", "done">>>>)
     \/ /\ ~ summary.cached /\ UNCHANGED summary
        /\ Yields(s, Ended(s, "compress"), <<<<"compress", "done">>>>)
  /\ UNCHANGED <<seenPieces, chatPage>>

\* Mutant of RetrieveStream: what is found is tracked when the stream is answered.
RetrieveUntracked(s) ==
  /\ InPhase(s, "retrieve") /\ stream[s].open /\ Drained(s)
  /\ \E results \in SUBSET Snippets:
       Yields(s, [Ended(s, "retrieve") EXCEPT !.found = results \ seenPieces], <<<<"retrieve", "done">>>>)
  /\ UNCHANGED <<seenPieces, summary, chatPage>>

\* What the session has not seen is tracked at once; what repeats the
\* conversation is left out afterwards.  The search raises, which is told, or
\* what comes after it.
RetrieveStream(s) ==
  /\ InPhase(s, "retrieve") /\ stream[s].open /\ Drained(s)
  /\ \/ \E results \in SUBSET Snippets: \E given \in SUBSET (results \ seenPieces):
          /\ seenPieces' = seenPieces \cup results
          /\ \/ Yields(s, [Ended(s, "retrieve") EXCEPT !.found = given], <<<<"retrieve", "done">>>>)
             \/ Yields(s, Ended(s, "retrieve"), <<<<"retrieve", "error">>, <<"retrieve", "done">>>>)
     \/ /\ UNCHANGED seenPieces
        /\ Yields(s, Ended(s, "retrieve"), <<<<"retrieve", "error">>, <<"retrieve", "done">>>>)
  /\ UNCHANGED <<summary, chatPage>>

\* The model answers, and a long answer is gone over; or it raises, and with it the rest.
Generate(s) ==
  /\ InPhase(s, "generate") /\ stream[s].open /\ Drained(s)
  /\ \/ stream' = [stream EXCEPT ![s] = Ended(s, "generate")] /\ UNCHANGED wire
     \/ Yields(s, [stream[s] EXCEPT !.todo = {}, !.open = FALSE, !.at = "told"],
               <<<<"error", "">>>>)
  /\ UNCHANGED <<seenPieces, summary, chatPage>>

TellAnswer(s) ==
  /\ stream[s].at = "running" /\ stream[s].todo = {} /\ Drained(s)
  /\ Yields(s, [stream[s] EXCEPT !.at = "told"], <<<<"answer", "">>>>)
  /\ UNCHANGED <<seenPieces, summary, chatPage>>

EndStream(s) ==
  /\ stream[s].at = "told" /\ Drained(s)
  /\ Yields(s, [stream[s] EXCEPT !.at = "ended"], <<<<"done", "">>>>)
  /\ UNCHANGED <<seenPieces, summary, chatPage>>

\* The page is closed: the generator ends where it is held.
PageCloses(s) ==
  /\ s \in Pages /\ chatPage[s].reading /\ stream[s].at \in {"running", "told"}
  /\ stream' = [stream EXCEPT ![s].at = "left"] /\ wire' = [wire EXCEPT ![s] = <<>>]
  /\ chatPage' = [chatPage EXCEPT ![s].reading = FALSE]
  /\ UNCHANGED <<seenPieces, summary>>

\* Mutant of HandleSSE: the last event is taken for nothing.
HandleAllButDone(read, event) ==
  CASE event[1] = "answer" -> [read EXCEPT !.shows = TRUE, !.active = FALSE]
    [] event[1] \in PageSteps -> [read EXCEPT !.active = TRUE]
    [] OTHER -> read

\* Progress makes a step the active one, even when it tells that the phase is
\* done; an error shows nothing.
HandleSSE(read, event) ==
  CASE event[1] = "answer" -> [read EXCEPT !.shows = TRUE, !.active = FALSE]
    [] event[1] = "done" -> [read EXCEPT !.active = FALSE]
    [] event[1] \in PageSteps -> [read EXCEPT !.active = TRUE]
    [] OTHER -> read

\* A line of a read: data counts under the name that came before it in the same read.
TakeLine(read, line) ==
  CASE line[1] = "event" -> [read EXCEPT !.named = TRUE]
    [] line[1] = "data" ->
         [IF read.named THEN HandleSSE(read, line[2]) ELSE read EXCEPT !.named = FALSE]

\* One read, of any number of lines; half a line is kept for the next one.
ReadWire(s) ==
  /\ s \in Pages /\ chatPage[s].reading /\ wire[s] # <<>>
  /\ \E n \in 1..Len(wire[s]):
       LET begun == [shows |-> chatPage[s].shows, active |-> chatPage[s].active, named |-> FALSE]
           read == FoldLeft(TakeLine, begun, SubSeq(wire[s], 1, n))
       IN /\ chatPage' = [chatPage EXCEPT ![s].shows = read.shows, ![s].active = read.active,
                ![s].cut = @ \cup
                  {e \in {wire[s][n][2]} \cap {<<"answer", "">>, <<"done", "">>}: wire[s][n][1] = "event"}]
          /\ wire' = [wire EXCEPT ![s] = SubSeq(@, n + 1, Len(@))]
  /\ UNCHANGED <<stream, seenPieces, summary>>

\* The answer, if there is one, joins the conversation.
ReadingEnds(s) ==
  /\ s \in Pages /\ chatPage[s].reading /\ stream[s].at \in {"ended", "broken"} /\ wire[s] = <<>>
  /\ chatPage' = [chatPage EXCEPT ![s].reading = FALSE]
  /\ UNCHANGED <<stream, wire, seenPieces, summary>>

StreamNext ==
  \E s \in Streams:
    \/ StartStream(s) \/ StartPhase(s) \/ EndPhase(s) \/ CompressStream(s) \/ RetrieveStream(s)
    \/ Generate(s) \/ TellAnswer(s) \/ EndStream(s) \/ PageCloses(s)
    \/ ReadWire(s) \/ ReadingEnds(s)

-----------------------------------------------------------------------------

Told(s, event) == event \in ToSet(stream[s].told)

\* A stream that runs to its end has told the end of every phase it told the
\* start of but the generation's, whose end is either the answer or an error,
\* and that it is done after all of it.
EveryPhaseEnds ==
  \A s \in Streams: stream[s].at = "ended" =>
    /\ \A i \in DOMAIN stream[s].told: LET e == stream[s].told[i]
         IN e[2] = "started" /\ e[1] # "generate" =>
              \E j \in DOMAIN stream[s].told: j > i /\ stream[s].told[j] = <<e[1], "done">>
    /\ Told(s, <<"answer", "">>) # Told(s, <<"error", "">>)
    /\ Last(stream[s].told) = <<"done", "">>

\* No two streams of a session give the model the same chunk, though neither
\* holds a lock between the look at what was seen and the note of it; and only
\* one makes the summary, all others take it.
StreamsShareOut ==
  /\ \A s, t \in Streams: s # t => stream[s].found \cap stream[t].found = {}
  /\ summary.made = Cardinality({s \in Streams: stream[s].took = "made"}) /\ summary.made <= 1

\* A page shows the answer that was sent unless a read ended between its name
\* and its data, and no step as active once it has read that all is done.
PageShowsAnswer ==
  \A s \in Pages: ~ chatPage[s].reading /\ stream[s].at = "ended" =>
    /\ chatPage[s].shows <=> Told(s, <<"answer", "">>) /\ <<"answer", "">> \notin chatPage[s].cut
    /\ <<"done", "">> \notin chatPage[s].cut => ~ chatPage[s].active

\* The property of the generators of streamed chats (streaming.py).
StreamSafe == EveryPhaseEnds /\ StreamsShareOut
=============================================================================
