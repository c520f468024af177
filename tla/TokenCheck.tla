----------------------------- MODULE TokenCheck -----------------------------
(* CheckTokenInterceptor: the user of a request is kept in a ThreadLocal of  *)
(* the servlet thread, which serves one request after the other. preHandle   *)
(* sets it, afterCompletion takes it away; requests that preHandle rejects   *)
(* never get to afterCompletion, and requests it does not look into          *)
(* (OPTIONS, and the login, which is excluded) leave it alone.               *)
EXTENDS Naturals

CONSTANTS Worker,   \* servlet threads
          Caller,   \* users a token can be for
          NoUser    \* null

ASSUME NoUserIsNone == NoUser \notin Caller

VARIABLES serving,          \* serving[w]: what the thread is doing
          caller,           \* caller[w]: the user of the valid token of its request
          userThreadLocal   \* userThreadLocal[w]

tokenVars == <<serving, caller, userThreadLocal>>

TokenInit == /\ serving = [w \in Worker |-> "idle"]
             /\ caller = [w \in Worker |-> NoUser]
             /\ userThreadLocal = [w \in Worker |-> NoUser]
----------------------------------------------------------------------------
Serve(w, how, u) == /\ serving[w] = "idle"
                    /\ serving' = [serving EXCEPT ![w] = how]
                    /\ caller' = [caller EXCEPT ![w] = u]

\* The login is excluded from the interceptor: nothing is done, before or after.
userLogin(w) == Serve(w, "login", NoUser) /\ UNCHANGED userThreadLocal

\* OPTIONS passes without a look at the token.
Preflight(w) == Serve(w, "handler", NoUser) /\ UNCHANGED userThreadLocal

\* A token that is valid and names its user. Without one, the request ends here.
preHandle(w, u) == /\ Serve(w, "handler", u)
                   /\ userThreadLocal' = [userThreadLocal EXCEPT ![w] = u]

\* Mutant: the user is not removed.
afterCompletion_KeepsUser(w) == /\ serving[w] = "handler"
                                /\ serving' = [serving EXCEPT ![w] = "idle"]
                                /\ caller' = [caller EXCEPT ![w] = NoUser]
                                /\ UNCHANGED userThreadLocal

\* The handler has returned or thrown.
afterCompletion(w) == /\ serving[w] = "handler"
                      /\ serving' = [serving EXCEPT ![w] = "idle"]
                      /\ caller' = [caller EXCEPT ![w] = NoUser]
                      /\ userThreadLocal' = [userThreadLocal EXCEPT ![w] = NoUser]

LoginReturns(w) == /\ serving[w] = "login"
                   /\ serving' = [serving EXCEPT ![w] = "idle"]
                   /\ UNCHANGED <<caller, userThreadLocal>>

TokenNext == \E w \in Worker : \/ userLogin(w) \/ Preflight(w) \/ afterCompletion(w)
                               \/ LoginReturns(w)
                               \/ \E u \in Caller : preHandle(w, u)

TokenSpec == TokenInit /\ [][TokenNext]_tokenVars
----------------------------------------------------------------------------
(* A thread has the user of the request it is serving and no other: the user *)
(* of an earlier request is gone, also from a request that has no token.     *)
RunsAsCaller == userThreadLocal = caller
============================================================================
