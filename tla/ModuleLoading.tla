----------------------------- MODULE ModuleLoading -----------------------------
(***************************************************************************)
(* Loading and unloading the encoder, display and test modules: what each  *)
(* claims from the kernel, in order, what it releases when a claim fails   *)
(* and what when it is unloaded, read off the loading functions (the       *)
(* vs10xx driver has a module of its own, Vs10xxLifecycle).                *)
(*                                                                         *)
(* A resource is a pair of a kind and, for GPIOs and interrupts, a number. *)
(***************************************************************************)
EXTENDS Naturals, Sequences, SequencesExt

CONSTANTS
    Modules,        \* the modules that are loaded: "encoder", "oled", "test"
    MaxLoads        \* bound: loads

ModulesAssumption == Modules \subseteq {"encoder", "oled", "test"}
LoadsAssumption == MaxLoads \in Nat

One(kind) == <<kind, 0>>
Gpio(n) == <<"gpio", n>>
Irq(n) == <<"irq", n>>

Region == One("region")
Class == One("class")
Device == One("device")
Cdev == One("cdev")
Adapter == One("adapter")
Client == One("client")

\* A claim and what is released when it fails.
Claim(resource, undo) == [of |-> resource, undo |-> undo]

\* rotary_encoder_init, in rotary_encoder and in rotary_encoder_vol.
EncoderInit == <<Claim(Region, <<>>), Claim(Cdev, <<Region>>)>>
EncoderExit == <<Cdev, Region>>

\* Mutant: a failed cdev_add leaves the device behind.
OledInitLeaky == <<Claim(Region, <<>>), Claim(Class, <<Region>>),
                   Claim(Device, <<Class, Region>>), Claim(Cdev, <<Class, Region>>),
                   Claim(Adapter, <<Cdev, Device, Class, Region>>),
                   Claim(Client, <<Cdev, Device, Class, Region>>)>>

\* mp3_oled_init.
OledInit == <<Claim(Region, <<>>), Claim(Class, <<Region>>),
              Claim(Device, <<Class, Region>>),
              Claim(Cdev, <<Device, Class, Region>>),
              Claim(Adapter, <<Cdev, Device, Class, Region>>),
              Claim(Client, <<Cdev, Device, Class, Region>>)>>
OledExit == <<Client, Cdev, Device, Class, Region>>

\* The results of device_create and i2c_new_client_device are compared with
\* NULL but are error pointers: the failure is not noticed.  The client is
\* used at once, which ends in a fault of the kernel.
Unnoticed == {Device, Client}

\* rotary_test.c: two signal lines, the key, seven LEDs from pin 12 on and
\* three interrupts.  The labels of the error path fall through, so that all
\* that was claimed before is released.
TestClaims == <<Gpio(13), Gpio(19), Gpio(26)>> \o [i \in 1 .. 7 |-> Gpio(11 + i)]
                  \o <<Irq(1), Irq(2), Irq(3)>>
TestInit == [i \in 1 .. Len(TestClaims) |->
                Claim(TestClaims[i], Reverse(SubSeq(TestClaims, 1, i - 1)))]
TestExit == TestClaims

InitOf == [encoder |-> EncoderInit, oled |-> OledInit, test |-> TestInit]
ExitOf == [encoder |-> EncoderExit, oled |-> OledExit, test |-> TestExit]

-----------------------------------------------------------------------------
VARIABLES
    state,          \* "out", "loading", "in" or "dead", after a kernel fault
    module,         \* the module that is being dealt with
    at,             \* its next claim
    held,           \* what it has claimed
    stray,          \* it has released what it did not have
    clash,          \* it has failed to claim what it has already
    loads           \* loads so far (bounds the run)

vars == <<state, module, at, held, stray, clash, loads>>

Resources ==
    UNION {{InitOf[m][i].of : i \in 1 .. Len(InitOf[m])} : m \in Modules}

TypeOK ==
    /\ state \in {"out", "loading", "in", "dead"}
    /\ module \in Modules
    /\ at \in 1 .. Len(InitOf[module]) + 1
    /\ held \subseteq Resources \ {Adapter}
    /\ stray \in BOOLEAN /\ clash \in BOOLEAN
    /\ loads \in 0 .. MaxLoads

Init ==
    /\ state = "out"
    /\ module \in Modules
    /\ at = 1
    /\ held = {}
    /\ stray = FALSE /\ clash = FALSE
    /\ loads = 0

\* device_destroy of a device that does not exist does nothing.
Release(resources) ==
    /\ held' = held \ ToSet(resources)
    /\ stray' = (stray \/ ~(ToSet(resources) \subseteq held \cup {Device}))

Load ==
    /\ state = "out"
    /\ loads < MaxLoads
    /\ loads' = loads + 1
    /\ module' \in Modules
    /\ at' = 1
    /\ state' = "loading"
    /\ UNCHANGED <<held, stray, clash>>

Current == InitOf[module][at]
Claiming == state = "loading" /\ at <= Len(InitOf[module])

\* The adapter is given back right after the client has been created.
Succeed ==
    /\ Claiming
    /\ Current.of \notin held
    /\ held' = held \cup ({Current.of} \ {Adapter})
    /\ at' = at + 1
    /\ UNCHANGED <<state, module, stray, clash, loads>>

\* A claim fails because somebody has the resource, or for want of memory.
Fail ==
    /\ Claiming
    /\ Current.of \notin Unnoticed
    /\ clash' = (clash \/ Current.of \in held)
    /\ Release(Current.undo)
    /\ state' = "out"
    /\ UNCHANGED <<module, at, loads>>

FailUnnoticed ==
    /\ Claiming
    /\ Current.of \in Unnoticed
    /\ state' = IF Current.of = Client THEN "dead" ELSE "loading"
    /\ at' = at + 1
    /\ UNCHANGED <<module, held, stray, clash, loads>>

Loaded ==
    /\ state = "loading"
    /\ at > Len(InitOf[module])
    /\ state' = "in"
    /\ UNCHANGED <<module, at, held, stray, clash, loads>>

Unload ==
    /\ state = "in"
    /\ Release(ExitOf[module])
    /\ state' = "out"
    /\ UNCHANGED <<module, at, clash, loads>>

Next == Load \/ Succeed \/ Fail \/ FailUnnoticed \/ Loaded \/ Unload

Spec == Init /\ [][Next]_vars

-----------------------------------------------------------------------------
\* Whichever claims fail, a module that was not loaded or was unloaded has
\* kept nothing, and nothing is released that was not claimed.
LoadingBalanced == (state = "out" => held = {}) /\ ~stray

\* A module fails to load because of others only (rotary_test.c:15 says its
\* pins were chosen to avoid conflicts).
OwnPinsApart == ~clash
=============================================================================
