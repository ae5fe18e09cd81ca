---------------------------- MODULE RequestPolicy ----------------------------
(***************************************************************************)
(* What the gateway's middlewares decide about one request, as operators:  *)
(* CORS, authentication, the origin check of the WebSocket upgrade and the *)
(* routes.                                                                 *)
(*                                                                         *)
(* A list of origins is a sequence, as in router.RouterConfig; an origin   *)
(* is compared as a whole, so it is a value and not a string of letters.   *)
(***************************************************************************)
EXTENDS Naturals, Sequences

CONSTANTS
  NoOrigin,  \* the request has no Origin header
  Wildcard,  \* the origin "*"
  Local      \* origins that begin with http://localhost or http://127.0.0.1

ASSUME PolicyAssumption == {NoOrigin, Wildcard} \cap Local = {} /\ NoOrigin # Wildcard

-----------------------------------------------------------------------------
(* CORSWithConfig.                                                         *)
Listed(list, origin) == \E i \in DOMAIN list : list[i] = origin

OpenToAll(list) == list = <<>> \/ list[1] = Wildcard

\* allowOrigin: the header of the answer
AllowOrigin(list, origin) ==
  IF ~OpenToAll(list) /\ Listed(list, origin) THEN origin ELSE Wildcard

Accepts(list, origin) ==
  OpenToAll(list) \/ AllowOrigin(list, origin) # Wildcard \/ origin = NoOrigin

\* The status with which CORS ends the request, or 0.
Cors(list, method, origin) ==
  IF ~Accepts(list, origin) THEN 403 ELSE IF method = "OPTIONS" THEN 204 ELSE 0

-----------------------------------------------------------------------------
(* Auth.  The Authorization header is "none", "malformed", "empty" (the     *)
(* word Bearer and an empty token) or "bearer".  The token is not verified. *)
Auth(enabled, skipPaths, path, header) ==
  IF path \in skipPaths \/ ~enabled \/ header = "bearer" THEN 0 ELSE 401

-----------------------------------------------------------------------------
(* CheckWebSocketOrigin.                                                   *)
ReadAsCors(list, origin) ==                  \* mutant: <<>> allows all
  origin = NoOrigin \/ list = <<>> \/ Listed(list, origin)
CheckWebSocketOrigin(list, origin) ==
  \/ origin = NoOrigin
  \/ IF list = <<>> THEN origin \in Local ELSE Listed(list, origin)

-----------------------------------------------------------------------------
(* SetupRouterWithConfig: the handler of a method and a path.              *)
HandlerOf(method, path) ==
  IF method = "GET" /\ path = "/health" THEN "health"
  ELSE IF method = "POST" /\ path = "/api/v1/hello" THEN "hello"
  ELSE IF method = "GET" /\ path = "/ws/chat" THEN "chat"
  ELSE "notFound"

\* SetupRouter and NewHelloWSHandler, as main calls them.
DefaultRouterConfig ==
  [origins |-> <<>>, wsOrigins |-> <<>>, auth |-> FALSE,
   skipPaths |-> {"/health", "/api/v1/hello"}]

=============================================================================
