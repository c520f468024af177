------------------------------ MODULE MCParts -------------------------------
(* The components that share no state with each other, each on a small       *)
(* instance: the session table, the page loader, the server registry, the    *)
(* snowflake ids, the frame codec and the token check. A behaviour is one of *)
(* one of them: part is chosen in the beginning, and the rest stands still.  *)
EXTENDS NettyServer, PageLoader, ServerRegistry, SnowFlake, FrameCodec, TokenCheck, TLC

CONSTANTS modA, modB, layer, addr1, addr2

Modules == {modA, modB}
Builtins == {layer}
Lists == {<<layer>>, <<layer, modA>>, <<modB>>}
Addresses == {addr1, addr2}
Times == -2 .. 1
NeverYet == -3
Frames == {<<>>, <<1>>, <<0, 0, 0, 1>>}

VARIABLE part

partVars == <<part, vars, loaderVars, registryVars, snowVars, codecVars, tokenVars>>

PartsInit == /\ part \in {"sessions", "loader", "registry", "snow", "codec", "token"}
             /\ Init /\ LoaderInit /\ RegistryInit /\ CodecInit /\ TokenInit
             /\ SnowInit /\ (part # "snow" => clock = 0)

SessionsPart(A) == /\ part = "sessions" /\ A
                   /\ UNCHANGED <<part, loaderVars, registryVars, snowVars, codecVars, tokenVars>>
LoaderPart(A) == /\ part = "loader" /\ A
                 /\ UNCHANGED <<part, vars, registryVars, snowVars, codecVars, tokenVars>>
RegistryPart(A) == /\ part = "registry" /\ A
                   /\ UNCHANGED <<part, vars, loaderVars, snowVars, codecVars, tokenVars>>
SnowPart(A) == /\ part = "snow" /\ A
               /\ UNCHANGED <<part, vars, loaderVars, registryVars, codecVars, tokenVars>>
CodecPart(A) == /\ part = "codec" /\ A
                /\ UNCHANGED <<part, vars, loaderVars, registryVars, snowVars, tokenVars>>
TokenPart(A) == /\ part = "token" /\ A
                /\ UNCHANGED <<part, vars, loaderVars, registryVars, snowVars, codecVars>>

PartsNext == \/ SessionsPart(Next)
             \/ LoaderPart(LoaderNext)
             \/ RegistryPart(RegistryNext)
             \/ SnowPart(SnowNext)
             \/ CodecPart(CodecNext)
             \/ TokenPart(TokenNext)

\* The browser goes on while it has a task; event loops, time and idle events
\* go on as in FairSpec of NettyServer.
PartsSpec == /\ PartsInit /\ [][PartsNext]_partVars
             /\ WF_partVars(LoaderPart(Task))
             /\ \A c \in Channel : /\ WF_partVars(SessionsPart(EventLoop(c)))
                                   /\ WF_partVars(SessionsPart(process(c)))
                                   /\ WF_partVars(SessionsPart(Elapse(c)))

(* Every part is well typed: the loader's uses wait for scripts that exist,  *)
(* a rebuild leaves nothing of its list behind, ids fit their fields.        *)
PartsTypeOK == LoaderTypeOK /\ RegistryTypeOK /\ SnowTypeOK
=============================================================================
