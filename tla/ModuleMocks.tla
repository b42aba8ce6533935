---------------------------- MODULE ModuleMocks ----------------------------
(***************************************************************************)
(* The registry of module mocks in a bundled test file                     *)
(* (core/src/core/plugins/mockRuntimeCode.js): rs.mock and its variants    *)
(* replace the factory of a module in the bundle, rs.unmock restores it,   *)
(* importActual bypasses it, resetModules empties the module cache, and an *)
(* external package's dynamic import, which the bundler gives another      *)
(* module id, is redirected by its request.                                *)
(*                                                                         *)
(* The bundle is any sequence of such calls of one test file.              *)
(***************************************************************************)
EXTENDS Naturals, FiniteSets, Sequences, Functions

CONSTANTS Ids,          \* the module ids of the mocked request
          Static,       \* the id the hoisted rs.mock patches
          Manual,       \* the id of its __mocks__ module
          MaxCalls,     \* bound: calls of the test file
          None

VARIABLES factories,    \* __webpack_modules__: id -> its factory
          cache,        \* __webpack_module_cache__: id -> instance or None
          originals,    \* rstest_original_modules
          captured,     \* rstest_original_module_factories
          alias,        \* rstest_mocked_ids_by_request of the request
          made,         \* instances made so far
          mocked,       \* ghost: the latest mock of an id, or None
          seen,         \* the last module handed to the test file, and
                        \* (ghost) the mock it had then
          calls

vars == <<factories, cache, originals, captured, alias, made, mocked, seen,
          calls>>

All == Ids \cup {Manual}

(* A factory is the module's own, or a mock: by a function, a manual mock's  *)
(* module, or a spy of the original. An instance is what a factory made:     *)
(* the code it runs, and its number. A spied one wraps another.              *)
Own(id) == [kind |-> "own", id |-> id]

Instance(of, n) == [of |-> of, n |-> n]

Init == /\ factories = [id \in All |-> Own(id)]
        /\ cache = [id \in All |-> None]
        /\ originals = [id \in All |-> None]
        /\ captured = [id \in All |-> None]
        /\ alias = None /\ made = 0
        /\ mocked = [id \in All |-> None]
        /\ seen = [by |-> "none"]
        /\ calls = 0

Call == calls < MaxCalls /\ calls' = calls + 1

Registry == <<factories, originals, captured, alias, mocked>>

-----------------------------------------------------------------------------
(* __webpack_require__: what a module id yields, and the cache after it. A   *)
(* manual mock's factory requires the manual module in its turn, a spy's     *)
(* hands out the object made when the mock was set.                          *)
Loaded(id, store, n) ==
  IF store[id] # None THEN [module |-> store[id], store |-> store, n |-> n]
  ELSE LET of == factories[id]
           manual == IF store[Manual] # None THEN store[Manual]
                     ELSE Instance(Own(Manual), n + 1)
           module == CASE of.kind = "manual" -> [manual EXCEPT !.of = of]
                       [] of.kind = "spy" -> Instance(of, of.wraps)
                       [] OTHER -> Instance(of, n + 1)
       IN  [module |-> module,
            store |-> IF of.kind = "manual"
                      THEN [store EXCEPT ![id] = module, ![Manual] = manual]
                      ELSE [store EXCEPT ![id] = module],
            n |-> IF of.kind = "spy" THEN n ELSE n + 1]

Handed(by, id, module) ==
  seen' = [by |-> by, id |-> id, module |-> module, mock |-> mocked[id]]

Import(id) ==
  LET loaded == Loaded(id, cache, made)
  IN  /\ Call /\ cache' = loaded.store /\ made' = loaded.n
      /\ Handed("import", id, loaded.module)
      /\ UNCHANGED Registry

(* rstest_dynamic_require redirects to the mocked id of the request.         *)
DynamicTarget(id) == IF alias # None THEN alias ELSE id

DynamicImport(id) ==
  LET target == DynamicTarget(id)
      loaded == Loaded(target, cache, made)
  IN  /\ Call /\ cache' = loaded.store /\ made' = loaded.n
      /\ Handed("import", target, loaded.module)
      /\ UNCHANGED Registry

(* rstest_require_actual.                                                    *)
RequireActual(id) ==
  /\ Call
  /\ \/ /\ originals[id] # None
        /\ Handed("actual", id, originals[id])
        /\ UNCHANGED <<cache, made, originals>>
     \/ /\ originals[id] = None /\ captured[id] # None
        /\ originals' = [originals EXCEPT
                           ![id] = Instance(captured[id], made + 1)]
        /\ made' = made + 1
        /\ Handed("actual", id, originals'[id])
        /\ UNCHANGED cache
     \/ /\ originals[id] = None /\ captured[id] = None
        /\ cache' = Loaded(id, cache, made).store
        /\ made' = Loaded(id, cache, made).n
        /\ Handed("actual", id, cache'[id])
        /\ UNCHANGED originals
  /\ UNCHANGED <<factories, captured, alias, mocked>>

-----------------------------------------------------------------------------
(* getMockImplementation: the module in the cache, if any, is kept as the    *)
(* original one, its factory is captured once, and the mock's factory takes  *)
(* its place. A spy needs the original and loads it.                         *)
CachedAsOriginal(id) ==
  IF originals[id] = None /\ cache[id] # None
  THEN [originals EXCEPT ![id] = cache[id]] ELSE originals

Capture(id) ==
  IF captured[id] = None THEN [captured EXCEPT ![id] = factories[id]]
  ELSE captured

(* installFactory drops the stale instance of the module.                    *)
SeedCacheOnly(id, of, store) ==
  /\ factories' = factories
  /\ cache' = [store EXCEPT ![id] = Instance(of, made + 1)]

installFactory(id, of, store) ==
  /\ factories' = [factories EXCEPT ![id] = of]
  /\ cache' = [store EXCEPT ![id] = None]

Mock(id, kind, request) ==
  LET loaded == Loaded(id, cache, made)
      of == IF kind = "spy" THEN [kind |-> kind, wraps |-> loaded.module.n]
            ELSE [kind |-> kind, call |-> calls]
  IN  /\ Call
      /\ originals' = CachedAsOriginal(id)
      /\ captured' = Capture(id)
      /\ installFactory(id, of, IF kind = "spy" THEN loaded.store ELSE cache)
      /\ made' = IF kind = "spy" THEN loaded.n ELSE made
      /\ alias' = IF request THEN id ELSE alias
      /\ mocked' = [mocked EXCEPT ![id] = of]
      /\ UNCHANGED seen

(* rstest_unmock.                                                            *)
Unmock(id, request) ==
  /\ Call
  /\ factories' = [factories EXCEPT
                     ![id] = IF captured[id] # None THEN captured[id] ELSE @]
  /\ cache' = [cache EXCEPT ![id] = None]
  /\ alias' = IF request THEN None ELSE alias
  /\ mocked' = [mocked EXCEPT ![id] = None]
  /\ UNCHANGED <<originals, captured, made, seen>>

(* rstest_reset_modules leaves the modules whose original is kept.           *)
ResetModules ==
  /\ Call
  /\ cache' = [id \in All |-> IF originals[id] # None THEN cache[id] ELSE None]
  /\ UNCHANGED <<Registry, made, seen>>

Next == \/ \E id \in Ids : \/ Import(id) \/ DynamicImport(id)
                           \/ RequireActual(id)
                           \/ \E request \in BOOLEAN : Unmock(id, request)
        \/ \E kind \in {"factory", "manual", "spy"}, request \in BOOLEAN :
             Mock(Static, kind, request)
        \/ ResetModules

Spec == Init /\ [][Next]_vars

-----------------------------------------------------------------------------
(* Whatever was imported, reset, mocked again or restored before: an import  *)
(* of a module yields its latest mock, never an earlier one or the original, *)
(* and the original once it is unmocked; an external's dynamic import yields *)
(* the mock of the static one.                                               *)
ImportsAreTheLatestMock ==
  seen.by = "import" =>
    seen.module.of = IF seen.mock = None THEN Own(seen.id) ELSE seen.mock

(* importActual yields the module itself, even if it has been mocked.        *)
ActualIsOriginal == seen.by = "actual" => seen.module.of = Own(seen.id)

=============================================================================
