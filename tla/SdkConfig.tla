------------------------------ MODULE SdkConfig ------------------------------
(***************************************************************************)
(* AiresConfigBuilder of the Rust SDK (sdk-rust/src/config.rs): the        *)
(* defaults, the setters, what build() refuses and what it fills in.       *)
(* Durations are in milliseconds.                                          *)
(***************************************************************************)
EXTENDS Naturals

CONSTANTS None,   \* Option::None
          Https   \* the endpoints whose scheme is https://, in any case

(* AiresConfigBuilder::new(). *)
NewBuilder ==
    [service |-> None, environment |-> None, endpoint |-> None, tls |-> None,
     api_key |-> None, batch_size |-> 256, queue_capacity |-> 8192, max_retries |-> 3,
     batch_timeout |-> 500, flush_timeout |-> 5000, retry_backoff |-> 100]

(* The setters, called for the options that are given. *)
Builder(opts) ==
    [f \in DOMAIN NewBuilder |->
        IF f \in DOMAIN opts /\ opts[f] # None THEN opts[f] ELSE NewBuilder[f]]

(* Mutant: the capacity is not compared with the batch size. *)
BuildsAnyCapacity(b) ==
    /\ b.service # None
    /\ b.endpoint # None
    /\ b.batch_size # 0

(* build() returns Ok. *)
Builds(b) ==
    /\ b.service # None
    /\ b.endpoint # None
    /\ b.batch_size # 0
    /\ b.queue_capacity >= b.batch_size

tls_from_endpoint(endpoint) == endpoint \in Https

(* The AiresConfig it returns. *)
Config(b) ==
    [b EXCEPT !.environment = IF @ = None THEN "production" ELSE @,
              !.tls         = IF @ = None THEN tls_from_endpoint(b.endpoint) ELSE @]
=============================================================================
