------------------------------- MODULE ScifViewer ------------------------------
(***************************************************************************)
(* The SCIF viewer page composed with the session handlers it calls: the   *)
(* page that render_scif_view sends to the browser (app/scif.py), script   *)
(* included, as the browser gets it.  The script is written to fetch the   *)
(* raster, to heartbeat on a timer, and to leave at the first refusal.     *)
(***************************************************************************)
EXTENDS ScifSession, Sequences

VARIABLE page   \* page[s]: "closed"; "sent"; "inert" if the browser rejected its script;
                \* else "loading" the raster, "showing" it, or "asking" with a heartbeat out

viewerVars == <<vars, page>>

ViewerInit == Init /\ page = [s \in Session |-> "closed"]

Turn(s, p) == page' = [page EXCEPT ![s] = p]

--------------------------------------------------------------------------------
(* What becomes of the script on its way.  The first string of the signed text *)
(* in proofHeaders, in the tokens that matter: in a Python literal without the *)
(* prefix r the escape \n is a line break, and a JavaScript string in single   *)
(* quotes may not contain one.  A script with a syntax error runs not at all.  *)
Written == <<"quote", "GET", "backslash n", "quote">>
RawLiteral == FALSE
Sent == [i \in DOMAIN Written |->
            IF Written[i] = "backslash n" /\ ~RawLiteral THEN "line break" ELSE Written[i]]
Parses == \A i \in DOMAIN Sent : Sent[i] # "line break"

--------------------------------------------------------------------------------
OpenPage(s) ==
    /\ page[s] = "closed"
    /\ Exists(s)
    /\ ViewOk(s)
    /\ Turn(s, "sent")
    /\ UNCHANGED <<statusRead, janus>>

RunScript(s) ==
    /\ page[s] = "sent"
    /\ Turn(s, IF Parses THEN "loading" ELSE "inert")
    /\ UNCHANGED vars

\* A fetch is answered, or refused, or gets no usable answer.
Fetch(s) ==
    /\ \/ ProvedOk(s) /\ Turn(s, "showing")
       \/ (RequestRefused(s) \/ UNCHANGED session) /\ Turn(s, "closed")
    /\ UNCHANGED <<statusRead, janus>>

LoadDocument(s) == page[s] = "loading" /\ Fetch(s)

\* The interval timer; it fires again whatever became of the last heartbeat.
Beat(s) == page[s] = "showing" /\ Turn(s, "asking") /\ UNCHANGED vars

Answer(s) == page[s] = "asking" /\ Fetch(s)

(* The user leaves, or the expiry timer of a script that runs goes to the portal. *)
Leave(s) == page[s] # "closed" /\ Turn(s, "closed") /\ UNCHANGED vars

ViewerNext ==
    \/ \E s \in Session : OpenPage(s) \/ RunScript(s) \/ Leave(s)
    \/ \E s \in Session : LoadDocument(s) \/ Beat(s) \/ Answer(s)
    \/ Next /\ UNCHANGED page   \* any client, clock or administrator

(* A browser runs a page's script, and a script that runs goes on by itself.   *)
ViewerSpec ==
    /\ ViewerInit /\ [][ViewerNext]_viewerVars
    /\ \A s \in Session : /\ WF_viewerVars(RunScript(s))
                          /\ WF_viewerVars(LoadDocument(s))
                          /\ WF_viewerVars(Beat(s))
                          /\ WF_viewerVars(Answer(s))

--------------------------------------------------------------------------------
(* What the documentation says and the code does not do. *)

(* README.md:143: the controlled viewer sends an authorization heartbeat every *)
(* 15 seconds.  A page that is open asks again, or closes.                     *)
ViewerReauthorizes ==
    \A s \in Session : (page[s] # "closed") ~> (page[s] \in {"closed", "asking"})

================================================================================
