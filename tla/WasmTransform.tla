--------------------------- MODULE WasmTransform ---------------------------
(* The WASM transform: a guest module checked and loaded into a pool of    *)
(* instances, called with one event at a time by a host that bounds its    *)
(* time with an epoch ticker and an outer timeout, and its memory with a   *)
(* limiter.  The guest's linear memory is counted in allocations of one    *)
(* unit; what the guest does with an event is one of the setup's choices.  *)
EXTENDS Integers, Sequences, FiniteSets

CONSTANTS
    Setups,               \* host settings, guest modules and event batches explored
    CURRENT_ABI_VERSION

VARIABLES
    config,        \* path, timeout_ms, memory_limit, pool_size, fuel, workers, module, guest, events, batch
    runtime,       \* "none", "loaded" or "rejected"
    initialized,   \* WasmRuntime::initialized
    ticker,        \* RealWasmModule::ticker_started
    memory,        \* memory[s]: units allocated in the guest of pool slot s
    call,          \* the transform call in progress, or NoCall
    results,       \* results[k]: how the call for event k ended
    kept,          \* events the batch has kept so far
    counters

vars == <<config, runtime, initialized, ticker, memory, call, results, kept, counters>>

NoCall == [open |-> FALSE]
Slots == 1..config.pool_size
FirstSlot == 1
Errors == {"error", "trapped", "interrupted", "timeout"}

(***************************************************************************)
(* Loading.                                                                *)
(***************************************************************************)
validate_wasm_config == config.timeout_ms > 0 /\ config.memory_limit > 0 /\ config.path = "module.wasm"

Signature ==
    [alloc |-> <<"i32", "i32">>, dealloc |-> <<"i32,i32", "">>, transform |-> <<"i32,i32", "i64">>,
     rustcdc_abi_version |-> <<"", "i32">>, init |-> <<"i32,i32", "i32">>, shutdown |-> <<"", "i32">>]
Required == {"alloc", "dealloc", "transform", "rustcdc_abi_version"}

validate_export_signature(name) == config.module.exports[name] = Signature[name]

(* Host imports from the allowlist, every required export, and the right   *)
(* signature on each of those and on the optional ones that are present.   *)
validate_wasm_contract ==
    LET m == config.module
    IN  /\ m.imports \subseteq {"env.log", "env.get_metric", "env.record_metric"}
        /\ Required \subseteq DOMAIN m.exports /\ "memory" \in m.memories
        /\ \A name \in DOMAIN m.exports \cap DOMAIN Signature : validate_export_signature(name)

(* Instantiation runs the guest's start function, which a load-time ticker *)
(* thread interrupts when it does not return; a start that traps fails too.*)
create_instance_state == config.module.start = "returns"

validate_memory_limit == config.module.initial_memory <= config.memory_limit

RealWasmModule_new ==
    /\ create_instance_state
    /\ config.module.abi = CURRENT_ABI_VERSION
    /\ validate_memory_limit

new_with_config ==
    /\ runtime = "none"
    /\ runtime' = IF validate_wasm_config /\ validate_wasm_contract /\ RealWasmModule_new THEN "loaded" ELSE "rejected"
    /\ UNCHANGED <<config, initialized, ticker, memory, call, results, kept, counters>>

(***************************************************************************)
(* One call.                                                               *)
(***************************************************************************)
MoreEvents == Len(results) < config.events
Failed == \E k \in DOMAIN results : results[k] \in Errors

(* A batch stops at its first error and gives nothing back; events applied *)
(* one by one go on, with the failed ones skipped.                         *)
Ends(outcome) ==
    /\ call' = NoCall
    /\ results' = Append(results, outcome)
    /\ kept' = CASE outcome = "ok" -> Append(kept, Len(results) + 1)
                 [] outcome \in Errors /\ config.batch -> <<>>
                 [] OTHER -> kept

Count(outcome) ==
    [counters EXCEPT !.transform_error_total = IF outcome \in Errors THEN @ + 1 ELSE @,
                     !.filtered_total = IF outcome = "filtered" THEN @ + 1 ELSE @,
                     !.timeout_total = IF outcome = "timeout" THEN @ + 1 ELSE @]
(* Every slot's guest is initialised in turn, and the ticker task is       *)
(* spawned once; a status other than zero fails the call that asked.       *)
init ==
    /\ runtime = "loaded" /\ ~initialized /\ call = NoCall
    /\ ticker' = TRUE
    /\ initialized' = (config.module.init_status = 0)
    /\ IF config.module.init_status # 0 /\ MoreEvents
       THEN Ends("error") ELSE UNCHANGED <<call, results, kept>>
    /\ UNCHANGED <<config, runtime, memory, counters>>

shutdown ==
    /\ initialized /\ call = NoCall /\ ~MoreEvents
    /\ initialized' = FALSE
    /\ UNCHANGED <<config, runtime, ticker, memory, call, results, kept, counters>>

(* A batch goes on until its first error.                                  *)
CanCall == initialized /\ call = NoCall /\ MoreEvents /\ (config.batch => ~Failed)

alloc_and_write(slot) == memory[slot] + 1 <= config.memory_limit

(* The payload is measured before the call is counted.  The runtime is     *)
(* borrowed for the whole call, so the first slot is always the free one.  *)
transform(event) ==
    /\ CanCall
    /\ CASE event = "oversize" -> Ends("error") /\ UNCHANGED <<memory, counters>>
         [] event # "oversize" /\ alloc_and_write(FirstSlot) ->
                /\ counters' = [counters EXCEPT !.transform_total = @ + 1]
                /\ memory' = [memory EXCEPT ![FirstSlot] = @ + 1]
                /\ call' = [open |-> TRUE, event |-> event, elapsed |-> 0, ticks |-> 0]
                /\ UNCHANGED <<results, kept>>
         [] OTHER -> /\ Ends("error") /\ UNCHANGED memory
                     /\ counters' = [Count("error") EXCEPT !.transform_total = @ + 1]
    /\ UNCHANGED <<config, runtime, initialized, ticker>>

(* The input is freed once the guest has returned, whatever it returned.   *)
FreeInput(outcome) == [memory EXCEPT ![FirstSlot] = @ - 1]

Finishes(outcome, freed) ==
    /\ Ends(outcome)
    /\ counters' = Count(outcome)
    /\ memory' = freed
    /\ UNCHANGED <<config, runtime, initialized, ticker>>

(* The packed result: zero drops the event; otherwise a pointer and a      *)
(* length that are both positive, read, freed, and parsed as an event.     *)
transform_bytes ==
    /\ call.open
    /\ \/ call.event \in {"map", "slow"} /\ Finishes("ok", FreeInput("ok"))
       \/ call.event = "drop" /\ Finishes("filtered", FreeInput("filtered"))
       \/ call.event \in {"bad_pointer", "bad_length", "not_an_event"} /\ Finishes("error", FreeInput("error"))

(* A trap returns before the input is freed.                               *)
GuestTraps == call.open /\ call.event = "trap" /\ Finishes("trapped", memory)

(* The ticker is a task: with one worker it runs only when the guest       *)
(* yields.                                                                 *)
TickerRuns == ticker /\ (config.workers > 1 \/ config.fuel)

MillisecondPasses ==
    /\ call.open /\ call.event \in {"spin", "slow"} /\ call.elapsed < config.timeout_ms
    /\ call' = [call EXCEPT !.elapsed = @ + 1, !.ticks = IF TickerRuns THEN @ + 1 ELSE @]
    /\ UNCHANGED <<config, runtime, initialized, ticker, memory, results, kept, counters>>

EpochInterrupts == call.open /\ call.ticks >= config.timeout_ms /\ Finishes("interrupted", memory)

(* The outer timeout is looked at only where the call yields.              *)
OuterTimeout == call.open /\ config.fuel /\ call.elapsed >= config.timeout_ms /\ Finishes("timeout", memory)

Init ==
    /\ config \in Setups
    /\ runtime = "none" /\ initialized = FALSE /\ ticker = FALSE
    /\ memory = [s \in Slots |-> 0]
    /\ call = NoCall /\ results = <<>> /\ kept = <<>>
    /\ counters = [transform_total |-> 0, transform_error_total |-> 0, filtered_total |-> 0, timeout_total |-> 0]

Guest == transform_bytes \/ GuestTraps \/ MillisecondPasses \/ EpochInterrupts \/ OuterTimeout
Host == new_with_config \/ init \/ (\E event \in config.guest : transform(event)) \/ shutdown
Next == Host \/ Guest

(* The caller awaits its call, time passes, and a worker that is free runs *)
(* what is ready.                                                          *)
Spec == Init /\ [][Next]_vars /\ WF_vars(Guest)

(***************************************************************************)
(* Properties.                                                             *)
(***************************************************************************)
(* Every variable of the WASM host holds a value of its type.              *)
TypeOK ==
    /\ config \in Setups
    /\ runtime \in {"none", "loaded", "rejected"} /\ {initialized, ticker} \subseteq BOOLEAN
    /\ \A s \in Slots : memory[s] \in 0..config.memory_limit
    /\ call = NoCall \/ call.open
    /\ \A k \in DOMAIN results : results[k] \in Errors \cup {"ok", "filtered"}

Counted == Cardinality({k \in DOMAIN results : results[k] \in {"ok", "filtered"}})
InFlight == IF call.open THEN 1 ELSE 0

(* The counters account for every call: each one counted as attempted was  *)
(* transformed, filtered or failed, or is still running.                   *)
CountersAddUp ==
    /\ counters.transform_total = Counted + counters.transform_error_total + InFlight
    /\ counters.timeout_total = Cardinality({k \in DOMAIN results : results[k] = "timeout"})

(* The host frees what it allocated in the guest for every call the guest  *)
(* returned from, whatever it returned: only a call that trapped or was    *)
(* stopped keeps its input, so a guest that returns can be called forever. *)
GuestMemoryAccounted ==
    memory[FirstSlot] = InFlight
        + Cardinality({k \in DOMAIN results : results[k] \in {"trapped", "interrupted", "timeout"}})

(* What a batch keeps are the events the guest mapped, in order.           *)
KeepsInOrder ==
    ~(config.batch /\ Failed) =>
        kept = SelectSeq([k \in DOMAIN results |-> k], LAMBDA k : results[k] = "ok")

(* The host frees its input after every call, "even on event-drop or       *)
(* error" as transform_bytes says.                                         *)
InputFreed == ~call.open => memory[FirstSlot] = 0

(* Every transform that used up its time is counted in timeout_total.      *)
TimeoutsCounted ==
    counters.timeout_total = Cardinality({k \in DOMAIN results : results[k] \in {"timeout", "interrupted"}})

(* Every call into the guest ends: one that does not return is interrupted.*)
CallsEnd == call.open ~> ~call.open
=============================================================================
