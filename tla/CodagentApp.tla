---------------------------- MODULE CodagentApp ----------------------------
(***************************************************************************)
(* CodagentApp (src/codagent/server/app.py:229-408): hooks and routes are   *)
(* registered on an object that builds its Starlette application on the     *)
(* first ASGI call and never again, and then serves RunService.             *)
(*                                                                         *)
(* Registering a hook is one call.  Registering a route is two, the call of *)
(* route() and the call of the decorator it returned, and only the first    *)
(* looks whether the application is built.  An application given a registry *)
(* of the caller's own (an InMemoryRunRegistry here) leaves that registry's *)
(* hooks as they are and drops its own.  A registration that raises changes *)
(* nothing and is no step.                                                  *)
(***************************************************************************)
EXTENDS RunService, SequencesExt

CONSTANTS AgentHooks,    \* middleware of the constructor, then of the Agent
          Hooks,         \* middleware that may be registered later
          RegistryHooks, \* hooks of the caller's own registry
          OwnHooks,      \* what a registry adds: store mirror, metrics
          Paths          \* paths of custom routes, none of them built in

ASSUME HooksAreApart ==
    Hooks \cap (ToSet(AgentHooks) \cup ToSet(RegistryHooks) \cup ToSet(OwnHooks)) = {}

VARIABLES ownRegistry,  \* registry= was given
          hooks,        \* self._middleware
          decorators,   \* paths whose route() returned, the decorator not called
          extraRoutes,  \* self._extra_routes
          asgi,         \* self._asgi: None, or the hooks and routes it serves
          late          \* history: paths whose decorator was called after build

appVars == <<ownRegistry, hooks, decorators, extraRoutes, asgi, late>>

Built == asgi # None

AppInit ==
    /\ Init
    /\ ownRegistry \in BOOLEAN
    /\ hooks = AgentHooks
    /\ decorators = {}
    /\ extraRoutes = <<>>
    /\ asgi = None
    /\ late = {}

\* Mutant of AddMiddleware: without the check.
AddMiddlewareAnyTime(h) ==
    /\ h \notin ToSet(hooks)
    /\ hooks' = Append(hooks, h)
    /\ UNCHANGED <<ownRegistry, decorators, extraRoutes, asgi, late>>

\* add_middleware, and the decorators middleware, before_run, after_event and
\* after_run that wrap a function and call it.
AddMiddleware(h) ==
    /\ ~Built
    /\ h \notin ToSet(hooks)
    /\ hooks' = Append(hooks, h)
    /\ UNCHANGED <<ownRegistry, decorators, extraRoutes, asgi, late>>

CallRoute(p) ==
    /\ ~Built
    /\ p \notin decorators \cup ToSet(extraRoutes)
    /\ decorators' = decorators \cup {p}
    /\ UNCHANGED <<ownRegistry, hooks, extraRoutes, asgi, late>>

CallDecorator(p) ==
    /\ p \in decorators
    /\ decorators' = decorators \ {p}
    /\ extraRoutes' = Append(extraRoutes, p)
    /\ late' = IF Built THEN late \cup {p} ELSE late
    /\ UNCHANGED <<ownRegistry, hooks, asgi>>

\* What every run of the application is created with.
RegistryMiddleware ==
    IF ownRegistry THEN RegistryHooks ELSE hooks \o OwnHooks

\* build: create_app copies the lists as they are now.
Build ==
    /\ ~Built
    /\ asgi' = [middleware |-> RegistryMiddleware, routes |-> extraRoutes]
    /\ UNCHANGED <<ownRegistry, hooks, decorators, extraRoutes, late>>

Register ==
    \/ \E h \in Hooks : AddMiddleware(h)
    \/ \E p \in Paths : CallRoute(p) \/ CallDecorator(p)
    \/ Build

\* Before the application is built only its caller's registry runs anything.
Serve ==
    \/ Built /\ Next
    \/ ~Built /\ ownRegistry /\ \E r \in Runs : RunStep(r) \/ CreateRun(r, None)

AppNext ==
    \/ Register /\ UNCHANGED vars
    \/ Serve /\ UNCHANGED appVars

AppSpec == AppInit /\ [][AppNext]_<<vars, appVars>>

----------------------------------------------------------------------------

\* A registration that did not raise takes effect: the hooks registered are
\* those every run is created with, in the order of registration and before
\* the store mirror and the metrics, and the routes are served.  There are two
\* exceptions, both silent: an application with a registry of its caller's own
\* runs none of its hooks (app.py:104-105), and a route whose decorator is
\* called after the first request is not served (app.py:369-371).
RegisteredIsServed ==
    Built =>
        /\ ~ownRegistry => asgi.middleware = hooks \o OwnHooks
        /\ ToSet(extraRoutes) \ ToSet(asgi.routes) = late
=============================================================================
