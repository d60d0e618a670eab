---------------------------- MODULE MCHttpLibrary ----------------------------
(***************************************************************************)
(* The components of the HTTP library besides the pool, for TLC.  They     *)
(* share nothing: in each behaviour one of them runs.                      *)
(***************************************************************************)
EXTENDS HttpRequest, SessionStore, StaticFiles, TemplateCache, FileLogger

CONSTANTS t1, t2, f1, f2, s1, s2, k1

VARIABLE part

\* Of the parser: requests with sizes around every limit.
Heads == {[ends |-> <<2>>, first |-> 1], [ends |-> <<1, 3>>, first |-> 2],
          [ends |-> <<2, 3>>, first |-> 1], [ends |-> <<1, 2, 4>>, first |-> 2],
          [ends |-> <<1, 3, 5>>, first |-> 1], [ends |-> <<3, 6>>, first |-> 1],
          [ends |-> <<7, 8>>, first |-> 1]}

AroundLimits ==
    {r \in {[ends |-> h.ends, first |-> h.first,
             broken |-> h.first = Len(h.ends),
             multipart |-> m, length |-> l, fields |-> f] :
               h \in Heads, m \in BOOLEAN, l \in -2 .. IntMax, f \in {0, 1, 2}} :
        IsRequest(r)}
Clients == AroundLimits

\* Of the caches: a file that vanishes and comes back larger, and one that stays; the
\* preferred file of a template and the one that stands in for it, which vanish.
OneTwo == <<1, NoFile, 2>>
Both == <<f1, f2>>
OnlyFirstChanges == version'[f2] = 1
NoneComesBack == \A f \in Files : version'[f] < 3

\* Of the sessions: values are set and removed in the first minute; the second user
\* rests while there are two sessions.
ValuesEarly == clock' = 0 \/ values' = [d \in SessionIds |-> {}]
SecondRests ==
    (\A d \in SessionIds : memory'[d] # "new") =>
        doing'[t2] = "idle" /\ Own(t2)' = NoSession /\ Result(t2)' = NoSession

cacheVars == <<staticCache, service, answer, templateCache, loading, returned, rivals>>
allVars == <<part, vars, storeVars, diskVars, cacheVars, logVars>>

LibraryInit ==
    /\ part \in {"parser", "sessions", "files", "templates", "logger"}
    /\ Init /\ StoreInit /\ StaticInit /\ TemplateInit /\ LoggerInit
    /\ part # "parser" => request = CHOOSE r \in Requests : TRUE

Resting(others) == UNCHANGED <<part, others>>

Parser == part = "parser" /\ Resting(<<storeVars, diskVars, cacheVars, logVars>>)
Sessions == part = "sessions" /\ Resting(<<vars, diskVars, cacheVars, logVars>>)

ParserNext == Parser /\ Next
SessionsNext == Sessions /\ StoreNext /\ ValuesEarly /\ SecondRests
FilesNext ==
    part = "files" /\ StaticNext /\ OnlyFirstChanges
        /\ Resting(<<vars, storeVars, templateCache, loading, returned, rivals, logVars>>)
TemplatesNext ==
    part = "templates" /\ TemplateNext /\ NoneComesBack
        /\ Resting(<<vars, storeVars, staticCache, service, answer, logVars>>)
LoggerPartNext ==
    part = "logger" /\ LoggerNext /\ Resting(<<vars, storeVars, diskVars, cacheVars>>)

LibraryNext ==
    ParserNext \/ SessionsNext \/ FilesNext \/ TemplatesNext \/ LoggerPartNext

LibrarySpec ==
    /\ LibraryInit /\ [][LibraryNext]_allVars
    /\ WF_allVars(Parser /\ ReadFromSocket)
    /\ WF_allVars(Sessions /\ TimerEvent) /\ WF_allVars(Sessions /\ Sweep)

\* Every variable has its type.
LibraryTypeOK == TypeOK /\ StoreTypeOK /\ StaticTypeOK /\ TemplateTypeOK /\ LoggerTypeOK
=============================================================================
