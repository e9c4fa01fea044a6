-------------------------- MODULE DenoisingProofs --------------------------
(***************************************************************************)
(* What unroll_workflow makes of a denoise node, for every workflow of the *)
(* shape the examples give one and for every number of iterations: the     *)
(* calls of the one scheduler object are ordered by the data that passes   *)
(* between them, so that each finds the step index of its iteration; the   *)
(* residuals a model takes, and the predictions a guided step combines,    *)
(* are for the same latents and the same timestep.                         *)
(*                                                                         *)
(* The graph is only ever added to, but for the calls of the workflow that *)
(* name the denoised latents.  What is known of the calls that were added  *)
(* is therefore kept, and each call is added with what it needs.           *)
(***************************************************************************)
EXTENDS Denoising, FiniteSums, SequenceTheorems

-----------------------------------------------------------------------------
(* The calls *)

Calls == 1..Len(nodes)

\* The number of calls of the workflow, and the calls that unrolling adds.
Base == Len(request.workflow.nodes)
Loop == { k \in Calls : k > Base }

\* The calls of the scheduler that are for one iteration.
Timed(k) == k \in Loop /\ IsScheduler(k) /\ HasTimestep(k)

\* Whatever has been computed when call s has, j was computed too.
Closed(C) == \A k \in C : k \in Loop => Sources(k) \subseteq C
Reaches(s, j) == \A C \in SUBSET Calls : Closed(C) /\ s \in C => j \in C

\* The step index that call j leaves to the next one.
NextIndex(j) == IF IsStep(j) THEN IterationOf(j) + 1 ELSE IterationOf(j)

\* j is the last call of an iteration before k.
Latest(j, k) == Timed(j) /\ j < k /\ \A m \in Loop : Timed(m) /\ m < k => m <= j

-----------------------------------------------------------------------------
(* What is known of a call *)

Mentions(v, k) == v.src \in 0..(k - 1)

\* The timestep that call s takes from the timesteps of the schedule.
IsTimestep(s) ==
    /\ s \in Loop /\ {"tensor", "index"} \subseteq ArgsOf(s)
    /\ Arg(s, "tensor").src = Base + 1 /\ Arg(s, "index").no \in Nat

\* The scheduler is initialised by the first call that is added; all its other
\* calls come behind it.
SchedulerCall(k) ==
    IF k = Base + 1
    THEN IsScheduler(k) /\ SetsTimesteps(k) /\ ~HasTimestep(k)
    ELSE IsScheduler(k) =>
           \/ /\ nodes[k].mode = "init_noise_sigma"
              /\ Base + 1 \in Sources(k) /\ ~HasTimestep(k)
           \/ /\ nodes[k].mode \in {"scale_model_input", "step",
                                    "step_classifier_free_guidance"}
              /\ HasTimestep(k)

\* A call of the scheduler depends on all those before it, and is for the
\* iteration that the last of them has left.
Chained(k) ==
    /\ \A j \in Loop : Timed(j) /\ j < k => Reaches(k, j)
    /\ \A j \in Loop : Latest(j, k) => IterationOf(k) = NextIndex(j)
    /\ (\A j \in Loop : Timed(j) => k <= j) => IterationOf(k) = 0

Shared == {"latents", "timestep", "prompt_embeds", "pooled_prompt_embeds"}

Cond == denoise.adapters[1].cond.src

\* Call k takes lazy residuals of call c, which is for the same prompt, latents
\* and timestep and waits for nothing else than k and the control image.
Overtakes(k, c) ==
    /\ c \in Loop
    /\ \A b \in Shared : b \in ArgsOf(k) => b \in ArgsOf(c) /\ Arg(c, b) = Arg(k, b)
    /\ \A a \in ArgsOf(c) : Arg(c, a).src \in {0, Cond} \cup EagerSources(k)
    /\ HasTimestep(k)
    /\ IterationOf(k) > 0 => \E s \in EagerSources(k) : Reaches(s, Cond)

\* Calls u and t predict for the negative and for the positive prompt.
Branched(k, u, t) ==
    /\ {u, t} \subseteq Loop /\ u # t
    /\ {"latents", "timestep", "prompt_embeds"} \subseteq ArgsOf(u) \cap ArgsOf(t)
    /\ Arg(u, "latents") = Arg(t, "latents")
    /\ Arg(u, "timestep") = Arg(k, "timestep") /\ Arg(t, "timestep") = Arg(k, "timestep")
    /\ Arg(u, "prompt_embeds") = base.negative_prompt_embeds
    /\ Arg(t, "prompt_embeds") = base.prompt_embeds

CallInv(k) ==
    /\ \A a \in ArgsOf(k) : Mentions(Arg(k, a), k)
    /\ HasTimestep(k) => IsTimestep(Arg(k, "timestep").src)
    /\ SchedulerCall(k)
    /\ Timed(k) => Chained(k)
    /\ \A a \in ArgsOf(k) : IsLazy(Arg(k, a)) => Overtakes(k, Arg(k, a).src)
    /\ nodes[k].mode = "step_classifier_free_guidance" =>
         /\ {"noise_pred_uncond", "noise_pred_text", "timestep"} \subseteq ArgsOf(k)
         /\ Branched(k, Arg(k, "noise_pred_uncond").src, Arg(k, "noise_pred_text").src)

\* The calls of the workflow are none of these.
BaseInv(k) ==
    /\ nodes[k].op \notin SchedulerOps
    /\ nodes[k].mode # "step_classifier_free_guidance"
    /\ \A a \in ArgsOf(k) : ~IsLazy(Arg(k, a))

GraphInv ==
    /\ \E T : nodes \in Seq(T)
    /\ Base \in Nat /\ Base <= Len(nodes)
    /\ \A k \in Calls : DOMAIN nodes[k] = {"op", "mode", "patches", "args"}
    /\ \A k \in Calls : IF k \in Loop THEN CallInv(k) ELSE BaseInv(k)

-----------------------------------------------------------------------------
(* What is known of the variables *)

\* The denoise node of the request, from the shape of its workflow.
Known(v) == v.src \in 0..Base /\ v.out \notin LazyPorts
NodeShape ==
    /\ denoise.scheduler \in SchedulerOps /\ denoise.model \notin SchedulerOps
    /\ Known(denoise.latents) /\ denoise.latents.src > 0
    /\ Known(denoise.steps) /\ Known(denoise.guidance) /\ Known(denoise.strength)
    /\ \A a \in BaseInputs : Known(base[a])
    /\ base.prompt_embeds # Absent
    /\ denoise.guidance # Absent => base.negative_prompt_embeds # Absent
    /\ denoise.adapters # << >> =>
         /\ denoise.adapters[1].op \notin SchedulerOps
         /\ Known(denoise.adapters[1].cond) /\ Cond > 0
         /\ Known(denoise.adapters[1].scale) /\ denoise.adapters[1].scale.src = 0

Running == pc \in {"init", "noise", "guidance", "iterate", "scale", "adapters", "model",
                   "step", "rewire"}
InRound == pc \in {"scale", "adapters", "model", "step"}

\* A value that is there.
Value(v) == v.src \in Calls /\ v.out \notin LazyPorts

Started ==
    /\ Value(latents)
    /\ IF pc = "init" THEN Len(nodes) = Base
       ELSE timesteps.src = Base + 1 /\ timesteps.out \notin LazyPorts /\ Base + 1 \in Loop

Round ==
    /\ i < iterations
    /\ \E t \in Loop : /\ timestep.src = t /\ timestep.out \notin LazyPorts
                       /\ IsTimestep(t) /\ Arg(t, "index").no = i
    /\ Value(original)
    /\ branch \in (IF guided THEN {"uncond", "text"} ELSE {"plain"})
    /\ pc = "scale" => branch # "text"
    /\ pc = "step" => branch # "uncond"

\* Call c is the prediction of this round for prompt b.
Predicts(c, b) ==
    /\ noise[b].src = c /\ noise[b].out \notin LazyPorts
    /\ {"latents", "timestep", "prompt_embeds"} \subseteq ArgsOf(c)
    /\ Arg(c, "latents") = latents /\ Arg(c, "timestep") = timestep
    /\ Arg(c, "prompt_embeds") = Embeddings(b).prompt_embeds
    /\ denoise.adapters # << >> => Reaches(c, Cond)

Predictions ==
    /\ (pc \in {"adapters", "model"} /\ branch = "text") => \E u \in Loop : Predicts(u, "uncond")
    /\ pc = "step" =>
         IF guided
         THEN \E u, t \in Loop : u # t /\ Predicts(u, "uncond") /\ Predicts(t, "text")
         ELSE \E c \in Loop : Predicts(c, "plain")

\* The residuals are those of call c.
SampledFrom(c) ==
    /\ DOMAIN samples # {} /\ DOMAIN samples \cap DOMAIN CommonArgs = {}
    /\ \A s \in DOMAIN samples : samples[s].src = c
    /\ \A b \in DOMAIN CommonArgs :
         CommonArgs[b] # Absent => b \in ArgsOf(c) /\ Arg(c, b) = CommonArgs[b]
    /\ \A a \in ArgsOf(c) :
         \/ Arg(c, a).src \in {0, Cond}
         \/ a \in DOMAIN CommonArgs /\ Arg(c, a) = CommonArgs[a]
    /\ Reaches(c, Cond)

\* The iteration that comes next is the one the last call of the scheduler has left,
\* and whatever the latents are taken for depends on all its calls.
IndexInv ==
    /\ i \in Nat
    /\ \A j \in Loop : Latest(j, Len(nodes) + 1) => i = NextIndex(j)
    /\ (\A j \in Loop : ~Timed(j)) => i = 0

Foremost(s) ==
    /\ \A j \in Loop : Timed(j) => Reaches(s, j)
    /\ (denoise.adapters # << >> /\ i > 0) => Reaches(s, Cond)

RunInv ==
    /\ NodeShape /\ Started
    /\ \A s \in Calls : s = latents.src => Foremost(s)
    /\ InRound => Round /\ Predictions
    /\ pc = "model" =>
         IF denoise.adapters = << >> THEN samples = NoSamples
         ELSE \E c \in Loop : SampledFrom(c)

UnrollInv ==
    /\ request \in Requests
    /\ GraphInv /\ IndexInv
    /\ iterations \in 0..request.steps /\ DOMAIN noise = Branches
    /\ guidance = Absent \/ Value(guidance)
    /\ pc = "start" => Len(nodes) = Base
    /\ Running => RunInv

-----------------------------------------------------------------------------
(* The execution *)

OrderInv ==
    /\ computed \subseteq Calls
    /\ \A k \in computed : Sources(k) \subseteq computed
    /\ sched \in [set : BOOLEAN, index : Int, begin : Int]
    /\ Base + 1 \in computed => sched.set
    /\ (\A j \in computed : ~Timed(j)) =>
         sched.index = NoIndex /\ sched.begin \in {NoIndex, Skipped}
    /\ \A j \in computed : (Timed(j) /\ \A m \in computed : Timed(m) => m <= j) =>
         sched.index = Skipped + NextIndex(j)

ExecutionInv ==
    IF pc = "done" THEN OrderInv
    ELSE computed = {} /\ sched = [set |-> FALSE, index |-> NoIndex, begin |-> NoIndex]

IInv == UnrollInv /\ ExecutionInv

-----------------------------------------------------------------------------
(* The shape of a workflow *)

\* A list of at most one element that is not empty.
LEMMA OneElement ==
    ASSUME NEW T, NEW s \in Seq(T), s # << >>, Len(s) <= 1
    PROVE  Len(s) = 1 /\ 1 \in 1..Len(s)
  <1>1. Len(s) \in Nat /\ Len(s) # 0
    BY EmptySeq, LenProperties
  <1> QED
    BY <1>1

\* A request's workflow has the shape of those that are registered.
LEMMA WorkflowShape ==
    ASSUME request \in Requests
    PROVE  /\ Base \in Nat /\ request.steps \in Nat /\ request.strength \in Nat
           /\ \E T : request.workflow.nodes \in Seq(T)
           /\ \A k \in 1..Base :
                LET call == request.workflow.nodes[k]
                IN  /\ call.op \notin SchedulerOps
                    /\ call.mode # "step_classifier_free_guidance"
                    /\ DOMAIN call = {"op", "mode", "patches", "args"}
                    /\ \A a \in DOMAIN call.args : ~IsLazy(call.args[a])
           /\ request.workflow.denoise # << >> => NodeShape
  <1>1. Base \in Nat /\ request.steps \in Nat /\ request.strength \in Nat
    BY RequestsAssumption DEF Base
  <1>2. request.workflow.nodes \in
            Seq({ request.workflow.nodes[k] : k \in 1..Len(request.workflow.nodes) })
    BY ShapeAssumption
  <1>3. ASSUME NEW k \in 1..Base
        PROVE  LET call == request.workflow.nodes[k]
               IN  /\ call.op \notin SchedulerOps
                   /\ call.mode # "step_classifier_free_guidance"
                   /\ DOMAIN call = {"op", "mode", "patches", "args"}
                   /\ \A a \in DOMAIN call.args : ~IsLazy(call.args[a])
    <2>1. Denoised.out \notin LazyPorts
      BY DEF Denoised, LazyPorts
    <2> QED
      BY <2>1, ShapeAssumption DEF Base, IsLazy
  <1>4. ASSUME request.workflow.denoise # << >>
        PROVE  NodeShape
    <2>1. Len(request.workflow.denoise) = 1 /\ 1 \in 1..Len(request.workflow.denoise)
      <3>1. request.workflow.denoise \in
              Seq({ request.workflow.denoise[d] : d \in 1..Len(request.workflow.denoise) })
        BY ShapeAssumption
      <3>2. Len(request.workflow.denoise) <= 1
        BY RequestsAssumption
      <3> QED
        BY <1>4, <3>1, <3>2, OneElement, Zenon
    <2>2. Len(denoise.adapters) <= 1
      BY <2>1, RequestsAssumption DEF denoise
    <2>3. denoise.adapters \in Seq({ denoise.adapters[j] : j \in 1..Len(denoise.adapters) })
      BY <2>1, ShapeAssumption DEF denoise
    <2>4. denoise.adapters # << >> => 1 \in 1..Len(denoise.adapters)
      BY <2>2, <2>3, OneElement
    <2>5. Base + 1 - 1 = Base
      BY <1>1
    <2>6. \A v : Known(v) <=>
                   v.src \in 0..((Len(request.workflow.nodes) + 1) - 1)
                     /\ v.out \notin LazyPorts
      BY <2>5 DEF Known, Base
    <2>7. /\ denoise.scheduler \in SchedulerOps /\ denoise.model \notin SchedulerOps
          /\ \A v \in {denoise.latents, denoise.steps, denoise.guidance,
                       denoise.strength} : Known(v)
          /\ \A a \in BaseInputs : Known(base[a])
          /\ denoise.latents.src > 0 /\ base["prompt_embeds"] # Absent
          /\ denoise.guidance # Absent => base["negative_prompt_embeds"] # Absent
      BY <2>1, <2>6, ShapeAssumption DEF denoise, base
    <2>8. \A j \in 1..Len(denoise.adapters) :
            /\ denoise.adapters[j].op \notin SchedulerOps
            /\ Known(denoise.adapters[j].cond) /\ denoise.adapters[j].cond.src > 0
            /\ Known(denoise.adapters[j].scale) /\ denoise.adapters[j].scale.src = 0
      BY <2>1, <2>6, ShapeAssumption DEF denoise
    <2> QED
      BY <2>4, <2>7, <2>8 DEF NodeShape, Cond
  <1> QED
    BY <1>1, <1>2, <1>3, <1>4

-----------------------------------------------------------------------------
(* The graph is only added to *)

Kept ==
    /\ request' = request
    /\ Len(nodes) \in Nat /\ Len(nodes') \in Nat /\ Len(nodes) <= Len(nodes')
    /\ \A k \in Calls :
         /\ nodes'[k].op = nodes[k].op /\ nodes'[k].mode = nodes[k].mode
         /\ k \in Loop => /\ ArgsOf(k)' = ArgsOf(k)
                          /\ \A a \in ArgsOf(k) : Arg(k, a)' = Arg(k, a)

\* The calls that were there are where they were.
LEMMA KeptPlaces ==
    ASSUME GraphInv, Kept
    PROVE  /\ Base' = Base /\ denoise' = denoise /\ base' = base /\ Cond' = Cond
           /\ Calls \subseteq Calls' /\ Loop \subseteq Loop'
           /\ \A k \in Calls : k \in Loop' <=> k \in Loop
           /\ \A k \in Loop : Sources(k)' = Sources(k) /\ EagerSources(k)' = EagerSources(k)
  <1>1. Base' = Base /\ denoise' = denoise /\ base' = base /\ Cond' = Cond
    BY DEF Kept, Base, denoise, base, Cond
  <1>2. Calls \subseteq Calls'
    BY DEF Calls, Kept
  <1>3. \A k \in Calls : k \in Loop' <=> k \in Loop
    BY <1>1, <1>2 DEF Loop
  <1>4. ASSUME NEW k \in Loop
        PROVE  Sources(k)' = Sources(k) /\ EagerSources(k)' = EagerSources(k)
    <2>1. ArgsOf(k)' = ArgsOf(k) /\ \A a \in ArgsOf(k) : Arg(k, a)' = Arg(k, a)
      BY DEF Kept, Loop
    <2>2. Sources(k)' = Sources(k)
      BY <2>1 DEF Sources
    <2>3. { b \in ArgsOf(k) : ~IsLazy(Arg(k, b)) }'
            = { b \in ArgsOf(k) : ~IsLazy(Arg(k, b)) }
      BY <2>1 DEF IsLazy
    <2> QED
      BY <2>1, <2>2, <2>3 DEF EagerSources
  <1> QED
    BY <1>1, <1>2, <1>3, <1>4 DEF Loop

\* The sources of an added call are calls before it.
LEMMA SourcesBefore ==
    ASSUME GraphInv, NEW k \in Loop
    PROVE  Sources(k) \subseteq Calls /\ \A s \in Sources(k) : s < k
  <1>1. CallInv(k) /\ k \in 1..Len(nodes) /\ Len(nodes) \in Nat
    BY DEF GraphInv, Loop, Calls
  <1>2. \A a \in ArgsOf(k) : Arg(k, a).src \in 0..(k - 1)
    BY <1>1 DEF CallInv, Mentions
  <1> QED
    BY <1>1, <1>2 DEF Sources, Calls

\* What a call depends on, it still depends on.
LEMMA KeptReach ==
    ASSUME GraphInv, Kept, NEW s \in Calls, NEW j, Reaches(s, j)
    PROVE  Reaches(s, j)'
  <1>1. SUFFICES ASSUME NEW C \in SUBSET Calls', Closed(C)', s \in C
                 PROVE  j \in C
    BY DEF Reaches
  <1>2. ASSUME NEW k \in C \cap Calls, k \in Loop
        PROVE  Sources(k) \subseteq C \cap Calls
    <2>1. k \in Loop' /\ Sources(k)' = Sources(k)
      BY <1>2, KeptPlaces
    <2>2. Sources(k)' \subseteq C
      BY <1>1, <2>1 DEF Closed
    <2> QED
      BY <1>2, <2>1, <2>2, SourcesBefore
  <1>3. Closed(C \cap Calls)
    BY <1>2 DEF Closed
  <1> QED
    BY <1>1, <1>3 DEF Reaches

\* It is a call of the scheduler for an iteration if it was, and of the same one.
LEMMA KeptTimed ==
    ASSUME GraphInv, Kept, NEW k \in Loop
    PROVE  /\ HasTimestep(k)' <=> HasTimestep(k)
           /\ IsScheduler(k)' <=> IsScheduler(k)
           /\ Timed(k)' <=> Timed(k)
           /\ IsTimestep(k) => IsTimestep(k)'
           /\ HasTimestep(k) => IterationOf(k)' = IterationOf(k)
           /\ Timed(k) => NextIndex(k)' = NextIndex(k)
  <1>1. k \in Calls /\ k \in Loop' /\ Base' = Base
    BY KeptPlaces DEF Loop
  <1>2. \A m \in Loop : /\ ArgsOf(m)' = ArgsOf(m)
                        /\ \A a \in ArgsOf(m) : Arg(m, a)' = Arg(m, a)
    BY DEF Kept, Loop
  <1>3. HasTimestep(k)' <=> HasTimestep(k)
    BY <1>2 DEF HasTimestep
  <1>4. /\ IsScheduler(k)' <=> IsScheduler(k)
        /\ IsStep(k)' <=> IsStep(k)
    BY <1>1 DEF Kept, IsScheduler, IsStep
  <1>5. Timed(k)' <=> Timed(k)
    BY <1>1, <1>3, <1>4 DEF Timed
  <1>6. IsTimestep(k) => IsTimestep(k)'
    BY <1>1, <1>2 DEF IsTimestep
  <1>7. ASSUME HasTimestep(k)
        PROVE  IterationOf(k)' = IterationOf(k)
    <2>1. "timestep" \in ArgsOf(k) /\ IsTimestep(Arg(k, "timestep").src)
      BY <1>7 DEF GraphInv, Loop, CallInv, HasTimestep
    <2>2. /\ Arg(k, "timestep")' = Arg(k, "timestep")
          /\ Arg(k, "timestep").src \in Loop
          /\ "index" \in ArgsOf(Arg(k, "timestep").src)
      BY <1>2, <2>1 DEF IsTimestep
    <2>3. \A s \in Loop : "index" \in ArgsOf(s) => Arg(s, "index")' = Arg(s, "index")
      BY <1>2
    <2> QED
      BY <2>2, <2>3 DEF IterationOf
  <1>8. Timed(k) => NextIndex(k)' = NextIndex(k)
    BY <1>4, <1>7 DEF NextIndex, Timed
  <1> QED
    BY <1>3, <1>4, <1>5, <1>6, <1>7, <1>8

\* A step still combines the predictions of its two branches.
LEMMA KeptBranched ==
    ASSUME GraphInv, Kept, NEW k \in Loop, NEW u, NEW t, "timestep" \in ArgsOf(k),
           Branched(k, u, t)
    PROVE  Branched(k, u, t)'
  <1>1. /\ u \in Loop /\ t \in Loop /\ u \in Loop' /\ t \in Loop' /\ base' = base
    BY KeptPlaces DEF Branched
  <1>2. \A m \in Loop : /\ ArgsOf(m)' = ArgsOf(m)
                        /\ \A a \in ArgsOf(m) : Arg(m, a)' = Arg(m, a)
    BY DEF Kept, Loop
  <1> QED
    BY <1>1, <1>2 DEF Branched

\* A call still takes residuals of a call that it matches.
LEMMA KeptOvertakes ==
    ASSUME GraphInv, Kept, NEW k \in Loop, NEW c, Overtakes(k, c)
    PROVE  Overtakes(k, c)'
  <1>1. /\ k \in Calls /\ k \in 1..Len(nodes) /\ k \in Nat
        /\ c \in Loop /\ c \in Loop' /\ Cond' = Cond
    BY KeptPlaces DEF Loop, Calls, Overtakes
  <1>2. /\ ArgsOf(k)' = ArgsOf(k) /\ \A a \in ArgsOf(k) : Arg(k, a)' = Arg(k, a)
        /\ ArgsOf(c)' = ArgsOf(c) /\ \A a \in ArgsOf(c) : Arg(c, a)' = Arg(c, a)
    BY <1>1 DEF Kept, Loop
  <1>3. (\A b \in Shared : b \in ArgsOf(k) => b \in ArgsOf(c) /\ Arg(c, b) = Arg(k, b))'
    BY <1>2 DEF Overtakes
  <1>4. (\A a \in ArgsOf(c) : Arg(c, a).src \in {0, Cond} \cup EagerSources(k))'
    BY <1>1, <1>2, KeptPlaces DEF Overtakes
  <1>5. HasTimestep(k) /\ HasTimestep(k)' /\ IterationOf(k)' = IterationOf(k)
    BY KeptTimed DEF Overtakes
  <1>6. ASSUME IterationOf(k) > 0
        PROVE  (\E s \in EagerSources(k) : Reaches(s, Cond))'
    <2>1. PICK s \in EagerSources(k) : Reaches(s, Cond)
      BY <1>6 DEF Overtakes
    <2>2. s \in Calls
      BY <2>1, SourcesBefore DEF EagerSources, Sources
    <2>3. Reaches(s, Cond)' /\ s \in EagerSources(k)'
      BY <2>1, <2>2, KeptReach, KeptPlaces
    <2> QED
      BY <2>3
  <1> QED
    BY <1>1, <1>3, <1>4, <1>5, <1>6 DEF Overtakes

\* What is known of a call is known as long as it is there.
LEMMA KeptCall ==
    ASSUME GraphInv, Kept, NEW k \in Loop
    PROVE  CallInv(k)'
  <1>1. k \in Calls /\ k \in Loop' /\ CallInv(k) /\ Base' = Base /\ Cond' = Cond /\ base' = base
    BY KeptPlaces DEF GraphInv, Loop
  <1>2. \A m \in Loop : /\ ArgsOf(m)' = ArgsOf(m)
                        /\ \A a \in ArgsOf(m) : Arg(m, a)' = Arg(m, a)
                        /\ nodes'[m].op = nodes[m].op /\ nodes'[m].mode = nodes[m].mode
    BY DEF Kept, Loop
  <1>3. (\A a \in ArgsOf(k) : Mentions(Arg(k, a), k))'
    BY <1>1, <1>2 DEF CallInv, Mentions
  <1>4. (HasTimestep(k) => IsTimestep(Arg(k, "timestep").src))'
    <2>1. ASSUME HasTimestep(k)
          PROVE  IsTimestep(Arg(k, "timestep").src)'
      <3>1. IsTimestep(Arg(k, "timestep").src)
        BY <1>1, <2>1 DEF CallInv
      <3>2. Arg(k, "timestep")' = Arg(k, "timestep")
        BY <1>2, <2>1 DEF HasTimestep
      <3>3. \A s \in Loop : IsTimestep(s) => IsTimestep(s)'
        BY KeptTimed
      <3>4. Arg(k, "timestep").src \in Loop
        BY <3>1 DEF IsTimestep
      <3>5. \A v : v = Arg(k, "timestep") =>
                     (IsTimestep(v.src) => IsTimestep(v.src)')
        BY <3>3, <3>4
      <3> QED
        BY <1>2, <2>1, <3>1, <3>2, <3>3, <3>4 DEF IsTimestep, HasTimestep, Kept
    <2> QED
      BY <2>1, KeptTimed
  <1>5. SchedulerCall(k)'
    <2>1. SchedulerCall(k)
      BY <1>1 DEF CallInv
    <2>2. Sources(k)' = Sources(k)
      BY KeptPlaces
    <2> QED
      BY <1>1, <1>2, <2>1, <2>2, KeptTimed DEF SchedulerCall, SetsTimesteps
  <1>6. ASSUME Timed(k)
        PROVE  Chained(k)'
    <2>1. Chained(k)
      BY <1>1, <1>6 DEF CallInv
    <2>2. k \in Nat
      BY <1>1 DEF Calls
    <2>3. \A j \in Loop' : j < k => j \in Loop
      BY <1>1, <2>2, KeptPlaces DEF Calls, Loop, Kept
    <2>4. \A j \in Loop : Timed(j)' <=> Timed(j)
      BY KeptTimed
    <2>5. ASSUME NEW j \in Loop', Timed(j)', j < k
          PROVE  Reaches(k, j)'
      BY <1>1, <2>1, <2>3, <2>4, <2>5, KeptReach DEF Chained
    <2>6. ASSUME NEW j \in Loop', Latest(j, k)'
          PROVE  IterationOf(k)' = NextIndex(j)'
      <3>1. j \in Loop /\ Timed(j)
        BY <2>3, <2>4, <2>6 DEF Latest
      <3>2. \A m \in Loop : Timed(m) /\ m < k => m <= j
        BY <2>4, <2>6, KeptPlaces DEF Latest
      <3>3. Latest(j, k)
        BY <2>6, <3>1, <3>2 DEF Latest
      <3>4. IterationOf(k) = NextIndex(j)
        BY <2>1, <3>1, <3>3 DEF Chained
      <3> QED
        BY <1>6, <3>1, <3>4, KeptTimed DEF Timed
    <2>7. ASSUME (\A j \in Loop : Timed(j) => k <= j)'
          PROVE  IterationOf(k)' = 0
      <3>1. \A j \in Loop : Timed(j) => k <= j
        BY <2>4, <2>7, KeptPlaces
      <3> QED
        BY <1>6, <2>1, <3>1, KeptTimed DEF Chained, Timed
    <2> QED
      BY <2>5, <2>6, <2>7 DEF Chained
  <1>7. ASSUME NEW a \in ArgsOf(k), IsLazy(Arg(k, a))
        PROVE  Overtakes(k, Arg(k, a).src)'
    <2>1. Arg(k, a)' = Arg(k, a) /\ Overtakes(k, Arg(k, a).src)
      BY <1>1, <1>2, <1>7 DEF CallInv
    <2>2. \A c : Overtakes(k, c) => Overtakes(k, c)'
      BY KeptOvertakes
    <2>3. \A c : c = (Arg(k, a).src)' => Overtakes(k, c)'
      BY <2>1, <2>2
    <2> QED
      BY <2>3, Zenon DEF Overtakes
  <1>8. ASSUME nodes[k].mode = "step_classifier_free_guidance"
        PROVE  (/\ {"noise_pred_uncond", "noise_pred_text", "timestep"} \subseteq ArgsOf(k)
                /\ Branched(k, Arg(k, "noise_pred_uncond").src,
                               Arg(k, "noise_pred_text").src))'
    <2>1. /\ {"noise_pred_uncond", "noise_pred_text", "timestep"} \subseteq ArgsOf(k)
          /\ Branched(k, Arg(k, "noise_pred_uncond").src, Arg(k, "noise_pred_text").src)
      BY <1>1, <1>8 DEF CallInv
    <2>2. /\ ArgsOf(k)' = ArgsOf(k)
          /\ Arg(k, "noise_pred_uncond")' = Arg(k, "noise_pred_uncond")
          /\ Arg(k, "noise_pred_text")' = Arg(k, "noise_pred_text")
      BY <1>2, <2>1
    <2>3. \A u, t : Branched(k, u, t) => Branched(k, u, t)'
      BY <2>1, KeptBranched
    <2>4. \A u, t : (u = (Arg(k, "noise_pred_uncond").src)'
                      /\ t = (Arg(k, "noise_pred_text").src)') => Branched(k, u, t)'
      BY <2>1, <2>2, <2>3
    <2>5. Branched(k, Arg(k, "noise_pred_uncond").src, Arg(k, "noise_pred_text").src)'
      BY <2>4, Zenon DEF Branched
    <2> QED
      BY <2>1, <2>2, <2>5
  <1>9. \A a \in ArgsOf(k) : IsLazy(Arg(k, a))' <=> IsLazy(Arg(k, a))
    BY <1>2 DEF IsLazy
  <1>10. (\A a \in ArgsOf(k) : IsLazy(Arg(k, a)) => Overtakes(k, Arg(k, a).src))'
    BY <1>2, <1>7, <1>9
  <1>11. (Timed(k) => Chained(k))'
    BY <1>6, KeptTimed
  <1>12. nodes'[k].mode = nodes[k].mode
    BY <1>2
  <1> QED
    BY <1>3, <1>4, <1>5, <1>8, <1>10, <1>11, <1>12 DEF CallInv

\* Operator.__call__ adds a call and leaves the others.
LEMMA AddedCall ==
    ASSUME GraphInv, request' = request, NEW call, nodes' = Append(nodes, call)
    PROVE  /\ Kept /\ \E T : nodes' \in Seq(T)
           /\ Len(nodes') = Len(nodes) + 1 /\ Len(nodes) + 1 \in Loop'
           /\ \A k \in Loop' : k \in Loop \/ k = Len(nodes) + 1
           /\ nodes'[Len(nodes) + 1] = call
           /\ \A k \in Calls : nodes'[k] = nodes[k]
  <1>1. PICK T : nodes \in Seq(T)
    BY DEF GraphInv
  <1>2. nodes \in Seq(T \cup {call}) /\ call \in T \cup {call}
    BY <1>1, SeqMonotonic
  <1>3. /\ nodes' \in Seq(T \cup {call}) /\ Len(nodes) \in Nat
        /\ Len(nodes') = Len(nodes) + 1
        /\ \A k \in 1..Len(nodes) : nodes'[k] = nodes[k]
        /\ nodes'[Len(nodes) + 1] = call
    BY <1>2, AppendProperties, LenProperties
  <1>4. Kept
    BY <1>3 DEF Kept, Calls, ArgsOf, Arg
  <1>5. Base' = Base /\ Base \in Nat /\ Base <= Len(nodes)
    BY DEF GraphInv, Base
  <1> QED
    BY <1>3, <1>4, <1>5 DEF Loop, Calls

\* The graph remains what it is if the call n that is added is as it should be.
LEMMA AddedGraph ==
    ASSUME GraphInv, request' = request, NEW op, NEW mode, NEW patches, NEW args,
           nodes' = Append(nodes, Call(op, mode, patches, args)),
           NEW n, n = Len(nodes) + 1, CallInv(n)'
    PROVE  GraphInv'
  <1>1. /\ Kept /\ \E T : nodes' \in Seq(T)
        /\ Len(nodes') = Len(nodes) + 1 /\ Len(nodes) \in Nat
        /\ \A k \in Loop' : k \in Loop \/ k = Len(nodes) + 1
    BY AddedCall DEF Kept
  <1>2. Base' = Base /\ Base \in Nat /\ Base <= Len(nodes)
    BY DEF GraphInv, Base
  <1>3. ASSUME NEW k \in Loop'
        PROVE  CallInv(k)'
    <2>1. CASE k \in Loop
      BY <1>1, <2>1, KeptCall
    <2>2. CASE k = n
      BY <2>2
    <2> QED
      BY <1>1, <2>1, <2>2
  <1>4. ASSUME NEW k \in Calls', k \notin Loop'
        PROVE  BaseInv(k)'
    <2>1. k \in Calls /\ k \notin Loop
      BY <1>1, <1>2, <1>4 DEF Calls, Loop
    <2>2. nodes'[k] = nodes[k]
      BY <2>1, AddedCall DEF Calls
    <2> QED
      BY <2>1, <2>2 DEF GraphInv, BaseInv, ArgsOf, Arg
  <1>5. ASSUME NEW k \in Calls'
        PROVE  DOMAIN nodes'[k] = {"op", "mode", "patches", "args"}
    <2>1. CASE k \in Calls
      <3>1. nodes'[k] = nodes[k]
        BY <2>1, AddedCall DEF Calls
      <3> QED
        BY <2>1, <3>1 DEF GraphInv
    <2>2. CASE k = Len(nodes) + 1
      <3>1. nodes'[Len(nodes) + 1] = Call(op, mode, patches, args)
        BY AddedCall
      <3> QED
        BY <2>2, <3>1 DEF Call
    <2> QED
      BY <1>1, <2>1, <2>2 DEF Calls
  <1>6. (\A k \in Calls : DOMAIN nodes[k] = {"op", "mode", "patches", "args"})'
    BY <1>5
  <1>7. (\A k \in Calls : IF k \in Loop THEN CallInv(k) ELSE BaseInv(k))'
    BY <1>3, <1>4
  <1>8. (Base \in Nat /\ Base <= Len(nodes))'
    BY <1>1, <1>2
  <1> QED
    BY <1>1, <1>6, <1>7, <1>8 DEF GraphInv

\* The arguments that are given are those of the call.
LEMMA NewCall ==
    ASSUME GraphInv, request' = request, NEW op, NEW mode, NEW patches, NEW args,
           nodes' = Append(nodes, Call(op, mode, patches, args)),
           NEW n, n = Len(nodes) + 1
    PROVE  /\ Kept /\ Len(nodes') = n /\ n \in Nat /\ n \notin Calls
           /\ n \in Loop' /\ Loop' = Loop \cup {n} /\ Calls' = Calls \cup {n}
           /\ nodes'[n].op = op /\ nodes'[n].mode = mode
           /\ ArgsOf(n)' = { a \in DOMAIN args : args[a] # Absent }
           /\ \A a \in DOMAIN args : args[a] # Absent => Arg(n, a)' = args[a]
  <1>1. /\ Kept /\ Len(nodes') = n /\ n \in Loop' /\ Len(nodes) \in Nat
        /\ \A k \in Loop' : k \in Loop \/ k = n
        /\ nodes'[n] = Call(op, mode, patches, args)
    BY AddedCall DEF Kept
  <1>2. Loop \subseteq Loop'
    BY <1>1, KeptPlaces
  <1>3. Calls' = Calls \cup {n} /\ n \notin Calls
    BY <1>1 DEF Calls
  <1>4. nodes'[n].op = op /\ nodes'[n].mode = mode /\ nodes'[n].args = Given(args)
    BY <1>1 DEF Call
  <1>5. ArgsOf(n)' = { a \in DOMAIN args : args[a] # Absent }
    BY <1>4, Zenon DEF ArgsOf, Given
  <1>6. \A a \in DOMAIN args : args[a] # Absent => Arg(n, a)' = args[a]
    BY <1>4 DEF Arg, Given
  <1>7. Loop' = Loop \cup {n}
    BY <1>1, <1>2
  <1> QED
    BY <1>1, <1>3, <1>4, <1>5, <1>6, <1>7

\* A new call depends on what its sources depend on.
LEMMA NewReach ==
    ASSUME GraphInv, Kept, NEW n \in Loop', NEW s \in Calls, s \in Sources(n)', NEW j,
           Reaches(s, j) \/ s = j
    PROVE  Reaches(n, j)'
  <1>1. SUFFICES ASSUME NEW C \in SUBSET Calls', Closed(C)', n \in C
                 PROVE  j \in C
    BY DEF Reaches
  <1>2. s \in C
    BY <1>1 DEF Closed
  <1>3. Reaches(s, j) => Reaches(s, j)'
    BY KeptReach
  <1> QED
    BY <1>1, <1>2, <1>3 DEF Reaches

\* Every call depends on itself.
LEMMA ReachesItself ==
    ASSUME NEW s
    PROVE  Reaches(s, s) /\ Reaches(s, s)'
  BY DEF Reaches

\* A new call of the scheduler for this iteration.
LEMMA NewTimed ==
    ASSUME GraphInv, IndexInv, Kept, NEW n \in Nat, n = Len(nodes) + 1,
           Loop' = Loop \cup {n}, Timed(n)', IterationOf(n)' = i,
           i' = (NextIndex(n))', i' \in Nat, \A j \in Loop : Timed(j) => Reaches(n, j)',
           Len(nodes') = n
    PROVE  Chained(n)' /\ IndexInv'
  <1>1. \A j \in Loop : j < n /\ j \in Nat
    BY DEF Loop, Calls, Kept
  <1>2. \A j \in Loop : /\ Timed(j)' <=> Timed(j)
                        /\ Timed(j) => NextIndex(j)' = NextIndex(j)
    BY KeptTimed
  <1>3. \A j \in Loop : Latest(j, n)' <=> Latest(j, n)
    BY <1>1, <1>2 DEF Latest
  <1>4. (\A j \in Loop : Timed(j) /\ j < n => Reaches(n, j))'
    BY <1>1, <1>2
  <1>5. (\A j \in Loop : Latest(j, n) => IterationOf(n) = NextIndex(j))'
    <2>1. SUFFICES ASSUME NEW j \in Loop', Latest(j, n)'
                   PROVE  IterationOf(n)' = NextIndex(j)'
      OBVIOUS
    <2>2. j \in Loop
      BY <2>1 DEF Latest
    <2>3. Latest(j, n) /\ Timed(j)
      BY <1>3, <2>1, <2>2 DEF Latest
    <2>4. i = NextIndex(j)
      BY <2>2, <2>3 DEF IndexInv
    <2> QED
      BY <1>2, <2>2, <2>3, <2>4
  <1>6. ((\A j \in Loop : Timed(j) => n <= j) => IterationOf(n) = 0)'
    <2>1. ASSUME (\A j \in Loop : Timed(j) => n <= j)'
          PROVE  IterationOf(n)' = 0
      <3>1. \A j \in Loop : ~Timed(j)
        BY <1>1, <1>2, <2>1
      <3> QED
        BY <3>1 DEF IndexInv
    <2> QED
      BY <2>1
  <1>7. (\A j \in Loop : Latest(j, Len(nodes) + 1) => i = NextIndex(j))'
    <2>1. SUFFICES ASSUME NEW j \in Loop', Latest(j, Len(nodes) + 1)'
                   PROVE  i' = NextIndex(j)'
      OBVIOUS
    <2>2. n <= j
      BY <2>1 DEF Latest
    <2>3. j = n
      BY <1>1, <2>2
    <2> QED
      BY <2>3
  <1> QED
    BY <1>4, <1>5, <1>6, <1>7 DEF Chained, IndexInv

\* A new call of another kind leaves the iteration to come what it is.
LEMMA NewUntimed ==
    ASSUME GraphInv, IndexInv, Kept, NEW n \in Nat, n = Len(nodes) + 1,
           Loop' = Loop \cup {n}, ~Timed(n)', i' = i, Len(nodes') = n
    PROVE  IndexInv'
  <1>1. \A j \in Loop : j < n /\ j \in Nat
    BY DEF Loop, Calls, Kept
  <1>2. \A j \in Loop : /\ Timed(j)' <=> Timed(j)
                        /\ Timed(j) => NextIndex(j)' = NextIndex(j)
    BY KeptTimed
  <1>3. ASSUME NEW j \in Loop', Latest(j, Len(nodes) + 1)'
        PROVE  i' = NextIndex(j)'
    <2>1. j \in Loop /\ Timed(j)
      BY <1>2, <1>3 DEF Latest
    <2>2. \A m \in Loop : Timed(m) => m <= j
      BY <1>1, <1>2, <1>3 DEF Latest
    <2>3. Latest(j, Len(nodes) + 1)
      BY <1>1, <2>1, <2>2 DEF Latest
    <2> QED
      BY <1>2, <2>1, <2>3 DEF IndexInv
  <1>4. (\A j \in Loop : ~Timed(j))' => i' = 0
    BY <1>2 DEF IndexInv
  <1> QED
    BY <1>3, <1>4 DEF IndexInv

\* The latents still depend on all calls of the scheduler.
LEMMA KeptForemost ==
    ASSUME GraphInv, Kept, NEW n, Loop' = Loop \cup {n}, ~Timed(n)', i' = i,
           NEW s \in Calls, Foremost(s)
    PROVE  Foremost(s)'
  <1>1. denoise' = denoise /\ Cond' = Cond
    BY KeptPlaces
  <1>2. ASSUME NEW j \in Loop', Timed(j)'
        PROVE  Reaches(s, j)'
    <2>1. j \in Loop /\ Timed(j)
      BY <1>2, KeptTimed
    <2> QED
      BY <2>1, KeptReach DEF Foremost
  <1>3. ASSUME denoise.adapters # << >>, i > 0
        PROVE  Reaches(s, Cond)'
    <2>1. \A j : Reaches(s, j) => Reaches(s, j)'
      BY KeptReach
    <2>2. \A j : j = Cond' => Reaches(s, j)'
      BY <1>1, <1>3, <2>1 DEF Foremost
    <2> QED
      BY <2>2, Zenon DEF Reaches
  <1> QED
    BY <1>1, <1>2, <1>3 DEF Foremost

\* A call of no scheduler, or of none for an iteration.
LEMMA UntimedAdded ==
    ASSUME GraphInv, IndexInv, request' = request, i' = i,
           NEW op, NEW mode, NEW patches, NEW args,
           nodes' = Append(nodes, Call(op, mode, patches, args)),
           NEW n, n = Len(nodes) + 1, CallInv(n)', ~Timed(n)'
    PROVE  /\ GraphInv' /\ IndexInv'
           /\ \A s \in Calls : Foremost(s) => Foremost(s)'
  <1>1. Kept /\ Len(nodes') = n /\ n \in Nat /\ Loop' = Loop \cup {n}
    BY NewCall
  <1>2. GraphInv'
    BY AddedGraph
  <1>3. IndexInv'
    BY <1>1, NewUntimed
  <1>4. \A s \in Calls : Foremost(s) => Foremost(s)'
    BY <1>1, KeptForemost
  <1> QED
    BY <1>2, <1>3, <1>4

\* Arguments that are inputs, or eager outputs of calls before.
Settled(v) == v = Absent \/ (v.src \in 0..Len(nodes) /\ v.out \notin LazyPorts)

\* A call with such arguments mentions only calls before it, and takes nothing lazily.
LEMMA SettledArguments ==
    ASSUME GraphInv, request' = request, NEW op, NEW mode, NEW patches, NEW args,
           nodes' = Append(nodes, Call(op, mode, patches, args)),
           NEW n, n = Len(nodes) + 1, \A a \in DOMAIN args : Settled(args[a])
    PROVE  /\ (\A a \in ArgsOf(n) : Mentions(Arg(n, a), n))'
           /\ (\A a \in ArgsOf(n) : ~IsLazy(Arg(n, a)))'
  <1>1. /\ ArgsOf(n)' = { a \in DOMAIN args : args[a] # Absent } /\ n \in Nat
        /\ \A a \in DOMAIN args : args[a] # Absent => Arg(n, a)' = args[a]
    BY NewCall
  <1>2. Len(nodes) = n - 1 /\ Len(nodes) \in Nat
    BY LenProperties DEF GraphInv
  <1>3. \A a \in ArgsOf(n)' : Arg(n, a)'.src \in 0..(n - 1) /\ Arg(n, a)'.out \notin LazyPorts
    BY <1>1, <1>2 DEF Settled
  <1> QED
    BY <1>3 DEF Mentions, IsLazy

\* What the denoise node names, and the values there are.
LEMMA SettledValues ==
    ASSUME UnrollInv
    PROVE  /\ Len(nodes) \in Nat /\ Base \in Nat /\ Base <= Len(nodes)
           /\ \A v : Known(v) => Settled(v)
           /\ \A v : Value(v) => Settled(v) /\ v # Absent
           /\ Settled(Absent)
  <1>1. Len(nodes) \in Nat /\ Base \in Nat /\ Base <= Len(nodes)
    BY LenProperties DEF UnrollInv, GraphInv
  <1>2. \A v : Known(v) => Settled(v)
    BY <1>1 DEF Known, Settled
  <1>3. \A v : Value(v) => Settled(v) /\ v # Absent
    <2>1. Absent.src = 0
      BY DEF Absent
    <2>2. SUFFICES ASSUME NEW v, Value(v)
                   PROVE  Settled(v) /\ v # Absent
      OBVIOUS
    <2>3. v.src \in 1..Len(nodes) /\ v.out \notin LazyPorts
      BY <2>2 DEF Value, Calls
    <2> QED
      BY <1>1, <2>1, <2>3 DEF Settled
  <1> QED
    BY <1>1, <1>2, <1>3 DEF Settled

\* The denoise node is the request's, which stays.
LEMMA KeptShape ==
    ASSUME request' = request, NodeShape
    PROVE  NodeShape'
  BY DEF NodeShape, Known, Base, denoise, base, Cond

\* A value that is there stays there.
LEMMA KeptValue ==
    ASSUME Kept, NEW v, Value(v)
    PROVE  Value(v)' /\ v.src \in Calls' /\ v.out \notin LazyPorts
  BY DEF Kept, Value, Calls

\* No call is added.
LEMMA SameCalls ==
    ASSUME GraphInv, IndexInv, Kept, Len(nodes') = Len(nodes), i' = i
    PROVE  /\ Loop' = Loop /\ Calls' = Calls /\ \A k \in Loop : CallInv(k)'
           /\ IndexInv' /\ \A s \in Calls : Foremost(s) => Foremost(s)'
  <1>1. Loop' = Loop /\ Calls' = Calls
    BY KeptPlaces DEF Calls, Loop
  <1>2. \A j \in Loop : /\ Timed(j)' <=> Timed(j)
                        /\ Timed(j) => NextIndex(j)' = NextIndex(j)
    BY KeptTimed
  <1>3. IndexInv'
    <2>1. \A j \in Loop : Latest(j, Len(nodes) + 1)' <=> Latest(j, Len(nodes) + 1)
      BY <1>1, <1>2 DEF Latest
    <2>2. \A j : Latest(j, Len(nodes) + 1) => Timed(j)
      BY DEF Latest
    <2> QED
      BY <1>1, <1>2, <2>1, <2>2 DEF IndexInv
  <1>4. \A s \in Calls : Foremost(s) => Foremost(s)'
    <2>1. SUFFICES ASSUME NEW s \in Calls, Foremost(s)
                   PROVE  Foremost(s)'
      OBVIOUS
    <2>2. denoise' = denoise /\ Cond' = Cond
      BY KeptPlaces
    <2>3. \A j : Reaches(s, j) => Reaches(s, j)'
      BY KeptReach
    <2>4. (\A j \in Loop : Timed(j) => Reaches(s, j))'
      BY <1>1, <1>2, <2>1, <2>3 DEF Foremost
    <2>5. (denoise.adapters # << >> /\ i > 0)' => \A j : j = Cond' => Reaches(s, j)'
      BY <2>1, <2>2, <2>3 DEF Foremost
    <2>6. (denoise.adapters # << >> /\ i > 0)' => Reaches(s, Cond)'
      BY <2>5, Zenon DEF Reaches
    <2> QED
      BY <2>4, <2>6 DEF Foremost
  <1> QED
    BY <1>1, <1>3, <1>4, KeptCall

\* The graph and the iteration are left alone.
LEMMA SameGraph ==
    ASSUME GraphInv, IndexInv, request' = request, nodes' = nodes, i' = i
    PROVE  /\ Kept /\ Loop' = Loop /\ Calls' = Calls
           /\ GraphInv' /\ IndexInv' /\ \A s \in Calls : Foremost(s) => Foremost(s)'
  <1>1. Kept
    BY LenProperties DEF GraphInv, Kept, ArgsOf, Arg
  <1>2. /\ Loop' = Loop /\ Calls' = Calls /\ \A k \in Loop : CallInv(k)'
        /\ IndexInv' /\ \A s \in Calls : Foremost(s) => Foremost(s)'
    BY <1>1, SameCalls
  <1>3. \A k : BaseInv(k)' <=> BaseInv(k)
    BY DEF BaseInv, ArgsOf, Arg
  <1>4. GraphInv'
    BY <1>2, <1>3 DEF GraphInv, Base
  <1> QED
    BY <1>1, <1>2, <1>4

-----------------------------------------------------------------------------
(* Unrolling, call by call *)

\* The latents that denoising begins with are those the node names.
LEMMA StepBegin ==
    ASSUME UnrollInv, Begin
    PROVE  UnrollInv'
  <1>1. /\ request' = request /\ nodes' = nodes /\ i' = i /\ noise' = noise
        /\ iterations' = iterations /\ guidance' = guidance
        /\ pc' \in {"raised", "init"} /\ latents' = denoise.latents
        /\ Len(nodes) = Base /\ request.workflow.denoise # << >>
    BY DEF Begin, UnrollInv
  <1>2. Kept /\ Loop' = Loop /\ Calls' = Calls /\ GraphInv' /\ IndexInv'
    BY <1>1, SameGraph DEF UnrollInv
  <1>3. Base' = Base /\ Len(nodes') = Base' /\ Base \in Nat
    BY <1>1 DEF Base, UnrollInv, GraphInv
  <1>4. Loop' = {}
    BY <1>2, <1>3 DEF Loop, Calls
  <1>5. ASSUME Running'
        PROVE  RunInv'
    <2>1. pc' = "init"
      BY <1>1, <1>5 DEF Running
    <2>2. NodeShape /\ NodeShape'
      BY <1>1, WorkflowShape, KeptShape DEF UnrollInv
    <2>3. Value(latents)'
      BY <1>1, <1>2, <1>3, <2>2 DEF NodeShape, Known, Value, Calls
    <2>4. Started'
      BY <1>3, <2>1, <2>3 DEF Started
    <2>5. (\A s \in Calls : s = latents.src => Foremost(s))'
      <3>1. i' = 0
        BY <1>2, <1>4 DEF IndexInv
      <3> QED
        BY <1>4, <3>1 DEF Foremost
    <2> QED
      BY <2>1, <2>2, <2>4, <2>5 DEF RunInv, InRound
  <1> QED
    BY <1>1, <1>2, <1>5 DEF UnrollInv, Value

\* The first call that is added initialises the scheduler.
LEMMA StepFirst ==
    ASSUME UnrollInv, pc = "init", request' = request, i' = i, noise' = noise,
           guidance' = guidance, pc' \in {"noise", "guidance"},
           NEW mode \in {"init", "img2img_get_timesteps"}, NEW args,
           Emit(Scheduler(mode, args)), "timestep" \notin DOMAIN args,
           \A a \in DOMAIN args : Settled(args[a]),
           timesteps' = Made("timesteps"), iterations' \in 0..request.steps,
           latents' = latents \/ latents' = Made("latents")
    PROVE  UnrollInv'
  <1>0. PICK n : n = Base + 1
    OBVIOUS
  <1>1. /\ GraphInv /\ IndexInv /\ RunInv /\ NodeShape /\ Started
        /\ Len(nodes) = Base /\ Base \in Nat
        /\ nodes' = Append(nodes, Call(denoise.scheduler, mode, << >>, args))
    BY DEF UnrollInv, GraphInv, Running, RunInv, Started, Emit, Scheduler
  <1>16. n = Len(nodes) + 1
    BY <1>0, <1>1
  <1>2. /\ Kept /\ n \in Loop' /\ Loop' = Loop \cup {n} /\ Calls' = Calls \cup {n}
        /\ n = Len(nodes) + 1
        /\ nodes'[n].op = denoise.scheduler /\ nodes'[n].mode = mode
        /\ ArgsOf(n)' = { a \in DOMAIN args : args[a] # Absent }
    BY <1>1, <1>16, NewCall
  <1>3. Base' = Base
    BY DEF Base
  <1>4. ~HasTimestep(n)' /\ ~Timed(n)'
    BY <1>2 DEF HasTimestep, Timed
  <1>5. SchedulerCall(n)'
    BY <1>0, <1>1, <1>2, <1>3, <1>4 DEF SchedulerCall, IsScheduler, SetsTimesteps, NodeShape
  <1>6. /\ (\A a \in ArgsOf(n) : Mentions(Arg(n, a), n))'
        /\ (\A a \in ArgsOf(n) : ~IsLazy(Arg(n, a)))'
    BY <1>1, <1>2, SettledArguments
  <1>7. nodes'[n].mode # "step_classifier_free_guidance"
    BY <1>2
  <1>8. CallInv(n)'
    BY <1>4, <1>5, <1>6, <1>7, Zenon DEF CallInv
  <1>9. GraphInv' /\ IndexInv'
    BY <1>1, <1>2, <1>4, <1>8, UntimedAdded
  <1>10. Loop' = {n}
    BY <1>0, <1>1, <1>2 DEF Loop, Calls
  <1>11. i' = 0
    BY <1>4, <1>9, <1>10 DEF IndexInv
  <1>12. timesteps'.src = n /\ timesteps'.out \notin LazyPorts
    BY <1>16 DEF Made, Output, LazyPorts
  <1>13. Value(latents)'
    <2>1. CASE latents' = latents
      BY <1>1, <2>1, KeptValue, <1>2 DEF Started, Value
    <2>2. CASE latents' = Made("latents")
      BY <1>1, <1>2, <2>2 DEF Made, Output, LazyPorts, Value
    <2> QED
      BY <2>1, <2>2
  <1>14. RunInv'
    <2>1. NodeShape'
      BY <1>1, KeptShape
    <2>2. Started'
      BY <1>0, <1>2, <1>3, <1>12, <1>13 DEF Started
    <2>3. (\A s \in Calls : s = latents.src => Foremost(s))'
      BY <1>4, <1>10, <1>11 DEF Foremost
    <2> QED
      BY <2>1, <2>2, <2>3 DEF RunInv, InRound
  <1>15. (guidance = Absent \/ Value(guidance))'
    BY <1>2, KeptValue DEF UnrollInv, Value
  <1> QED
    BY <1>9, <1>14, <1>15 DEF UnrollInv

\* The scheduler is initialised for all steps of the request.
LEMMA StepInitScheduler ==
    ASSUME UnrollInv, InitScheduler
    PROVE  UnrollInv'
  <1> DEFINE args == [num_inference_steps |-> denoise.steps, latents |-> latents]
  <1>1. RunInv /\ NodeShape /\ Started /\ Known(denoise.steps) /\ Value(latents)
    BY DEF InitScheduler, UnrollInv, Running, RunInv, NodeShape, Started
  <1>2. \A a \in DOMAIN args : Settled(args[a])
    BY <1>1, SettledValues
  <1>3. Emit(Scheduler("init", args)) /\ "timestep" \notin DOMAIN args
    BY DEF InitScheduler
  <1>4. iterations' \in 0..request.steps
    BY WorkflowShape DEF InitScheduler, UnrollInv
  <1> HIDE DEF args
  <1>5. /\ pc = "init" /\ request' = request /\ i' = i /\ noise' = noise
        /\ guidance' = guidance /\ pc' \in {"noise", "guidance"}
        /\ timesteps' = Made("timesteps") /\ latents' = latents
    BY DEF InitScheduler
  <1> QED
    BY <1>2, <1>3, <1>4, <1>5, StepFirst

\* What is left of a schedule is a part of it.
LEMMA RemainingBounded ==
    ASSUME NEW steps \in Nat, NEW strength \in Nat
    PROVE  Remaining(steps, strength) \in 0..steps
  <1>1. steps * strength \in Nat
    OBVIOUS
  <1>2. \A m \in Nat : m \div 10 \in Nat
    OBVIOUS
  <1> QED
    BY <1>1, <1>2 DEF Remaining

\* The scheduler is initialised for the end of its schedule.
LEMMA StepInitImageToImage ==
    ASSUME UnrollInv, InitImageToImage
    PROVE  UnrollInv'
  <1> DEFINE args == [num_inference_steps |-> denoise.steps,
                      strength |-> denoise.strength, latents |-> latents]
  <1>1. /\ RunInv /\ NodeShape /\ Started /\ Known(denoise.steps) /\ Known(denoise.strength)
        /\ Value(latents)
    BY DEF InitImageToImage, UnrollInv, Running, RunInv, NodeShape, Started
  <1>2. \A a \in DOMAIN args : Settled(args[a])
    BY <1>1, SettledValues
  <1>3. Emit(Scheduler("img2img_get_timesteps", args)) /\ "timestep" \notin DOMAIN args
    BY DEF InitImageToImage
  <1>4. iterations' \in 0..request.steps
    BY WorkflowShape, RemainingBounded DEF InitImageToImage, UnrollInv
  <1> HIDE DEF args
  <1>5. /\ pc = "init" /\ request' = request /\ i' = i /\ noise' = noise
        /\ guidance' = guidance /\ pc' \in {"noise", "guidance"}
        /\ timesteps' = Made("timesteps") /\ latents' = Made("latents")
    BY DEF InitImageToImage
  <1> QED
    BY <1>2, <1>3, <1>4, <1>5, StepFirst

\* A new call that takes the latents depends on all calls of the scheduler.
LEMMA NewForemost ==
    ASSUME GraphInv, Kept, NEW n \in Loop', Loop' = Loop \cup {n},
           NEW s \in Calls, s \in Sources(n)', Foremost(s), denoise' = denoise,
           i' = i \/ (denoise.adapters # << >> => \A c : c = Cond => Reaches(n, c)')
    PROVE  Foremost(n)'
  <1>1. ASSUME NEW j \in Loop', Timed(j)'
        PROVE  Reaches(n, j)'
    <2>1. CASE j = n
      BY <2>1, ReachesItself
    <2>2. CASE j \in Loop
      <3>1. Timed(j)
        BY <1>1, <2>2, KeptTimed
      <3>2. Reaches(s, j)
        BY <2>2, <3>1 DEF Foremost
      <3> QED
        BY <3>2, NewReach
    <2> QED
      BY <2>1, <2>2
  <1>2. Cond' = Cond
    BY KeptPlaces
  <1>3. (denoise.adapters # << >> /\ i > 0)' => \A c : c = Cond' => Reaches(n, c)'
    <2>1. SUFFICES ASSUME denoise.adapters # << >>, i' = i, i > 0
                   PROVE  \A c : c = Cond => Reaches(n, c)'
      BY <1>2
    <2>2. Reaches(s, Cond)
      BY <2>1 DEF Foremost
    <2>3. \A c : Reaches(s, c) => Reaches(n, c)'
      BY NewReach
    <2> QED
      BY <2>2, <2>3
  <1>4. (denoise.adapters # << >> /\ i > 0)' => Reaches(n, Cond)'
    BY <1>3, Zenon DEF Reaches
  <1> QED
    BY <1>1, <1>4 DEF Foremost

\* The latents are scaled once, by a call that is for no iteration.
LEMMA StepInitNoiseSigma ==
    ASSUME UnrollInv, InitNoiseSigma
    PROVE  UnrollInv'
  <1> DEFINE args == [latents |-> latents, timesteps |-> timesteps]
  <1>1. /\ GraphInv /\ IndexInv /\ RunInv /\ NodeShape /\ Started /\ pc = "noise"
        /\ Value(latents) /\ timesteps.src = Base + 1 /\ timesteps.out \notin LazyPorts
        /\ Base + 1 \in Loop /\ Len(nodes) \in Nat /\ Base \in Nat
    BY SettledValues DEF InitNoiseSigma, UnrollInv, Running, RunInv, Started
  <1>2. /\ nodes' = Append(nodes, Call(denoise.scheduler, "init_noise_sigma", << >>, args))
        /\ request' = request /\ i' = i /\ noise' = noise /\ guidance' = guidance
        /\ pc' = "guidance" /\ latents' = Made("latents") /\ timesteps' = timesteps
        /\ iterations' = iterations
    BY DEF InitNoiseSigma, Emit, Scheduler
  <1>3. /\ DOMAIN args = {"latents", "timesteps"}
        /\ args["latents"] = latents /\ args["timesteps"] = timesteps
    OBVIOUS
  <1> HIDE DEF args
  <1>4. latents # Absent /\ timesteps # Absent /\ Settled(latents) /\ Settled(timesteps)
    <2>1. Value(timesteps)
      BY <1>1 DEF Value, Loop
    <2> QED
      BY <1>1, <2>1, SettledValues
  <1>5. PICK n : n = Len(nodes) + 1
    OBVIOUS
  <1>6. /\ Kept /\ n \in Loop' /\ Loop' = Loop \cup {n} /\ Calls' = Calls \cup {n}
        /\ n \in Nat
        /\ nodes'[n].op = denoise.scheduler /\ nodes'[n].mode = "init_noise_sigma"
        /\ ArgsOf(n)' = {"latents", "timesteps"}
        /\ Arg(n, "latents")' = latents /\ Arg(n, "timesteps")' = timesteps
    <2>1. /\ Kept /\ n \in Loop' /\ Loop' = Loop \cup {n} /\ Calls' = Calls \cup {n}
          /\ n \in Nat
          /\ nodes'[n].op = denoise.scheduler /\ nodes'[n].mode = "init_noise_sigma"
          /\ ArgsOf(n)' = { a \in DOMAIN args : args[a] # Absent }
          /\ \A a \in DOMAIN args : args[a] # Absent => Arg(n, a)' = args[a]
      BY <1>1, <1>2, <1>5, NewCall
    <2> QED
      BY <1>3, <1>4, <2>1
  <1>7. Base' = Base /\ n # Base + 1 /\ denoise' = denoise
    BY <1>1, <1>2, <1>5 DEF Base, Loop, Calls, denoise
  <1>8. ~HasTimestep(n)' /\ ~Timed(n)'
    BY <1>6 DEF HasTimestep, Timed
  <1>9. Base + 1 \in Sources(n)' /\ latents.src \in Sources(n)' /\ latents.src \in Calls
    BY <1>1, <1>6 DEF Sources, Value, Calls
  <1>10. SchedulerCall(n)'
    BY <1>6, <1>7, <1>8, <1>9 DEF SchedulerCall
  <1>11. /\ (\A a \in ArgsOf(n) : Mentions(Arg(n, a), n))'
         /\ (\A a \in ArgsOf(n) : ~IsLazy(Arg(n, a)))'
    <2>1. \A a \in DOMAIN args : Settled(args[a])
      BY <1>3, <1>4
    <2> QED
      BY <1>1, <1>2, <1>5, <2>1, SettledArguments
  <1>12. CallInv(n)'
    BY <1>6, <1>8, <1>10, <1>11 DEF CallInv
  <1>13. GraphInv' /\ IndexInv'
    BY <1>1, <1>2, <1>5, <1>8, <1>12, UntimedAdded
  <1>14. latents'.src = n /\ latents'.out \notin LazyPorts
    BY <1>2, <1>5 DEF Made, Output, LazyPorts
  <1>15. RunInv'
    <2>1. NodeShape'
      BY <1>1, <1>2, KeptShape
    <2>2. Started'
      BY <1>1, <1>2, <1>6, <1>7, <1>14 DEF Started, Value
    <2>3. Foremost(n)'
      <3>1. Foremost(latents.src)
        BY <1>1, <1>9 DEF RunInv
      <3> QED
        BY <1>1, <1>2, <1>6, <1>7, <1>9, <3>1, NewForemost
    <2>4. (\A s \in Calls : s = latents.src => Foremost(s))'
      BY <1>14, <2>3
    <2> QED
      BY <1>2, <2>1, <2>2, <2>4 DEF RunInv, InRound
  <1>16. (guidance = Absent \/ Value(guidance))'
    BY <1>2, <1>6, KeptValue DEF UnrollInv, Value
  <1> QED
    BY <1>2, <1>13, <1>15, <1>16 DEF UnrollInv

\* A call of no scheduler that takes no timestep.
LEMMA OtherCall ==
    ASSUME UnrollInv, Base + 1 \in Loop, request' = request, i' = i,
           NEW op, op \notin SchedulerOps, NEW patches, NEW args,
           nodes' = Append(nodes, Call(op, "default", patches, args)),
           NEW n, n = Len(nodes) + 1, "timestep" \notin DOMAIN args,
           \A a \in DOMAIN args : Settled(args[a])
    PROVE  GraphInv' /\ IndexInv' /\ \A s \in Calls : Foremost(s) => Foremost(s)'
  <1>1. GraphInv /\ IndexInv /\ Len(nodes) \in Nat /\ Base' = Base
    BY SettledValues DEF UnrollInv, Base
  <1>2. /\ nodes'[n].op = op /\ nodes'[n].mode = "default"
        /\ ArgsOf(n)' = { a \in DOMAIN args : args[a] # Absent }
    BY <1>1, NewCall
  <1>3. n # Base + 1
    BY <1>1 DEF Loop, Calls
  <1>4. ~HasTimestep(n)' /\ ~IsScheduler(n)'
    BY <1>2 DEF HasTimestep, IsScheduler
  <1>5. ~Timed(n)' /\ SchedulerCall(n)'
    BY <1>1, <1>3, <1>4 DEF Timed, SchedulerCall
  <1>6. /\ (\A a \in ArgsOf(n) : Mentions(Arg(n, a), n))'
        /\ (\A a \in ArgsOf(n) : ~IsLazy(Arg(n, a)))'
    BY <1>1, SettledArguments
  <1>7. CallInv(n)'
    BY <1>2, <1>4, <1>5, <1>6 DEF CallInv
  <1> QED
    BY <1>1, <1>5, <1>7, UntimedAdded

\* The latents are what they were, and what depends on them.
LEMMA LatentsStay ==
    ASSUME Started, Calls \subseteq Calls', latents' = latents,
           \A s \in Calls : s = latents.src => Foremost(s),
           \A s \in Calls : Foremost(s) => Foremost(s)'
    PROVE  (\A s \in Calls : s = latents.src => Foremost(s))'
  BY DEF Started, Value

\* The tensor of the guidance scale is of no scheduler.
LEMMA StepMakeGuidance ==
    ASSUME UnrollInv, MakeGuidance
    PROVE  UnrollInv'
  <1>1. /\ GraphInv /\ IndexInv /\ RunInv /\ NodeShape /\ Started /\ pc = "guidance"
        /\ Base + 1 \in Loop /\ Known(base.guidance_scale)
    BY DEF MakeGuidance, UnrollInv, Running, RunInv, Started, NodeShape, BaseInputs
  <1>2. /\ request' = request /\ i' = i /\ noise' = noise /\ latents' = latents
        /\ pc' = "iterate" /\ timesteps' = timesteps /\ iterations' = iterations
    BY DEF MakeGuidance
  <1>3. ASSUME Kept, GraphInv', IndexInv', (guidance = Absent \/ Value(guidance))',
               \A s \in Calls : Foremost(s) => Foremost(s)'
        PROVE  UnrollInv'
    <2>1. NodeShape'
      BY <1>1, <1>2, KeptShape
    <2>2. Started'
      BY <1>1, <1>2, <1>3, KeptPlaces, KeptValue DEF Started, Value
    <2>3. (\A s \in Calls : s = latents.src => Foremost(s))'
      BY <1>1, <1>2, <1>3, LatentsStay, KeptPlaces DEF RunInv
    <2>4. RunInv'
      BY <1>2, <2>1, <2>2, <2>3 DEF RunInv, InRound
    <2> QED
      BY <1>2, <1>3, <2>4 DEF UnrollInv
  <1>4. CASE base.guidance_scale = Absent
    <2>1. nodes' = nodes /\ guidance' = guidance
      BY <1>4 DEF MakeGuidance
    <2>2. /\ Kept /\ Calls' = Calls /\ GraphInv' /\ IndexInv'
          /\ \A s \in Calls : Foremost(s) => Foremost(s)'
      BY <1>1, <1>2, <2>1, SameGraph
    <2> QED
      BY <1>3, <2>1, <2>2 DEF UnrollInv, Value
  <1>5. CASE base.guidance_scale # Absent
    <2> DEFINE args == [guidance_scale |-> base.guidance_scale]
    <2>1. /\ nodes' = Append(nodes, Call("GuidanceTensor", "default", << >>, args))
          /\ guidance' = Output(Len(nodes) + 1, "guidance_tensor")
      BY <1>5 DEF MakeGuidance, Emit, Made
    <2>2. "timestep" \notin DOMAIN args /\ \A a \in DOMAIN args : Settled(args[a])
      BY <1>1, SettledValues
    <2> HIDE DEF args
    <2>3. "GuidanceTensor" \notin SchedulerOps
      BY DEF SchedulerOps
    <2>4. Kept /\ Len(nodes) + 1 \in Calls'
      BY <1>1, <1>2, <2>1, NewCall
    <2>5. GraphInv' /\ IndexInv' /\ \A s \in Calls : Foremost(s) => Foremost(s)'
      BY <1>1, <1>2, <2>1, <2>2, <2>3, OtherCall
    <2>6. Value(guidance)'
      BY <2>1, <2>4 DEF Value, Output, LazyPorts
    <2> QED
      BY <1>3, <2>4, <2>5, <2>6
  <1> QED
    BY <1>4, <1>5

\* A round begins with the timestep of its iteration.
LEMMA StepTakeTimestep ==
    ASSUME UnrollInv, TakeTimestep
    PROVE  UnrollInv'
  <1> DEFINE args == [tensor |-> timesteps, index |-> IterationIndex(i)]
  <1>1. /\ GraphInv /\ IndexInv /\ RunInv /\ NodeShape /\ Started /\ pc = "iterate"
        /\ Base + 1 \in Loop /\ timesteps.src = Base + 1 /\ timesteps.out \notin LazyPorts
        /\ i \in Nat /\ Value(latents) /\ Base \in Nat
    BY SettledValues DEF TakeTimestep, UnrollInv, Running, RunInv, Started, IndexInv
  <1>2. /\ request' = request /\ i' = i /\ noise' = noise /\ latents' = latents
        /\ pc' \in {"scale", "adapters"} /\ timesteps' = timesteps
        /\ iterations' = iterations /\ i < iterations /\ guidance' = guidance
        /\ nodes' = Append(nodes, Call("IndexedTensor", "default", << >>, args))
        /\ timestep' = Output(Len(nodes) + 1, "indexed_tensor")
        /\ original' = latents
        /\ branch' = IF guided THEN "uncond" ELSE "plain"
    BY DEF TakeTimestep, Emit, Made
  <1>3. /\ DOMAIN args = {"tensor", "index"}
        /\ args["tensor"] = timesteps /\ args["index"] = IterationIndex(i)
    OBVIOUS
  <1> HIDE DEF args
  <1>4. /\ timesteps # Absent /\ Settled(timesteps)
    <2>1. Value(timesteps)
      BY <1>1 DEF Value, Loop
    <2> QED
      BY <2>1, SettledValues
  <1>5. /\ IterationIndex(i) # Absent /\ Settled(IterationIndex(i))
        /\ IterationIndex(i).no = i
    <2>1. /\ IterationIndex(i).src = 0 /\ IterationIndex(i).out = "timestep"
          /\ IterationIndex(i).no = i
      BY DEF IterationIndex
    <2>2. Absent.out = "" /\ "timestep" \notin LazyPorts
      BY DEF Absent, LazyPorts
    <2>3. IterationIndex(i) # Absent
      BY <2>1, <2>2
    <2>4. IterationIndex(i).src \in 0..Len(nodes) /\ IterationIndex(i).out \notin LazyPorts
      <3>1. Len(nodes) \in Nat
        BY SettledValues
      <3>2. 0 \in 0..Len(nodes)
        BY <3>1
      <3> QED
        BY <2>1, <2>2, <3>2
    <2> QED
      BY <2>1, <2>3, <2>4 DEF Settled
  <1>6. PICK n : n = Len(nodes) + 1
    OBVIOUS
  <1>7. /\ Kept /\ n \in Loop' /\ Loop' = Loop \cup {n} /\ Calls' = Calls \cup {n}
        /\ ArgsOf(n)' = {"tensor", "index"}
        /\ Arg(n, "tensor")' = timesteps /\ Arg(n, "index")' = IterationIndex(i)
    <2>1. /\ Kept /\ n \in Loop' /\ Loop' = Loop \cup {n} /\ Calls' = Calls \cup {n}
          /\ ArgsOf(n)' = { a \in DOMAIN args : args[a] # Absent }
          /\ \A a \in DOMAIN args : args[a] # Absent => Arg(n, a)' = args[a]
      BY <1>1, <1>2, <1>6, NewCall
    <2> QED
      BY <1>3, <1>4, <1>5, <2>1
  <1>8. GraphInv' /\ IndexInv' /\ \A s \in Calls : Foremost(s) => Foremost(s)'
    <2>1. "IndexedTensor" \notin SchedulerOps
      BY DEF SchedulerOps
    <2>2. "timestep" \notin DOMAIN args /\ \A a \in DOMAIN args : Settled(args[a])
      BY <1>3, <1>4, <1>5
    <2> QED
      BY <1>1, <1>2, <1>6, <2>1, <2>2, OtherCall
  <1>9. Base' = Base
    BY <1>2 DEF Base
  <1>10. Started'
    BY <1>1, <1>2, <1>7, <1>9, KeptValue DEF Started, Value
  <1>11. Round'
    <2>1. timestep'.src = n /\ timestep'.out \notin LazyPorts
      BY <1>2, <1>6 DEF Output, LazyPorts
    <2>2. IsTimestep(n)' /\ Arg(n, "index")'.no = i
      BY <1>1, <1>5, <1>7, <1>9 DEF IsTimestep
    <2>3. Value(original)'
      BY <1>1, <1>2, <1>7, KeptValue DEF Value
    <2>4. guided' <=> guided
      BY <1>2 DEF guided, denoise
    <2> QED
      BY <1>2, <1>7, <2>1, <2>2, <2>3, <2>4 DEF Round
  <1>12. Predictions'
    BY <1>2 DEF Predictions
  <1>13. (\A s \in Calls : s = latents.src => Foremost(s))'
    BY <1>1, <1>2, <1>7, <1>8, LatentsStay DEF RunInv
  <1>14. RunInv'
    BY <1>1, <1>2, <1>10, <1>11, <1>12, <1>13, KeptShape DEF RunInv
  <1>15. (guidance = Absent \/ Value(guidance))'
    BY <1>2, <1>7, KeptValue DEF UnrollInv, Value
  <1> QED
    BY <1>2, <1>8, <1>14, <1>15 DEF UnrollInv

\* The scaled latents depend on all calls of the scheduler, this one included.
LEMMA StepScaleModelInput ==
    ASSUME UnrollInv, ScaleModelInput
    PROVE  UnrollInv'
  <1> DEFINE args == [latents |-> latents, timestep |-> timestep]
  <1>1. /\ GraphInv /\ IndexInv /\ RunInv /\ NodeShape /\ Started /\ pc = "scale"
        /\ Base + 1 \in Loop /\ timesteps.src = Base + 1 /\ timesteps.out \notin LazyPorts
        /\ i \in Nat /\ Value(latents) /\ Base \in Nat /\ Round
        /\ Len(nodes) \in Nat
    BY SettledValues
       DEF ScaleModelInput, UnrollInv, Running, InRound, RunInv, Started, IndexInv
  <1>2. /\ request' = request /\ i' = i /\ noise' = noise /\ latents' = Made("latents")
        /\ pc' = "adapters" /\ timesteps' = timesteps /\ timestep' = timestep
        /\ iterations' = iterations /\ guidance' = guidance /\ original' = original
        /\ nodes' = Append(nodes, Call(denoise.scheduler, "scale_model_input", << >>, args))
        /\ branch' = branch
    BY DEF ScaleModelInput, Emit, Scheduler
  <1>3. /\ DOMAIN args = {"latents", "timestep"}
        /\ args["latents"] = latents /\ args["timestep"] = timestep
    OBVIOUS
  <1> HIDE DEF args
  <1>4. PICK t \in Loop : /\ timestep.src = t /\ timestep.out \notin LazyPorts
                          /\ IsTimestep(t) /\ Arg(t, "index").no = i
    BY <1>1 DEF Round
  <1>5. latents # Absent /\ timestep # Absent /\ Settled(latents) /\ Settled(timestep)
    <2>1. Value(timestep)
      BY <1>4 DEF Value, Loop
    <2> QED
      BY <1>1, <2>1, SettledValues
  <1>6. PICK n : n = Len(nodes) + 1
    OBVIOUS
  <1>7. /\ Kept /\ n \in Loop' /\ Loop' = Loop \cup {n} /\ Calls' = Calls \cup {n}
        /\ n \in Nat /\ Len(nodes') = n
        /\ nodes'[n].op = denoise.scheduler /\ nodes'[n].mode = "scale_model_input"
        /\ ArgsOf(n)' = {"latents", "timestep"}
        /\ Arg(n, "latents")' = latents /\ Arg(n, "timestep")' = timestep
    <2>1. /\ Kept /\ n \in Loop' /\ Loop' = Loop \cup {n} /\ Calls' = Calls \cup {n}
          /\ n \in Nat /\ Len(nodes') = n
          /\ nodes'[n].op = denoise.scheduler /\ nodes'[n].mode = "scale_model_input"
          /\ ArgsOf(n)' = { a \in DOMAIN args : args[a] # Absent }
          /\ \A a \in DOMAIN args : args[a] # Absent => Arg(n, a)' = args[a]
      BY <1>1, <1>2, <1>6, NewCall
    <2> QED
      BY <1>3, <1>5, <2>1
  <1>8. Base' = Base /\ n # Base + 1 /\ denoise' = denoise
    BY <1>1, <1>2, <1>6 DEF Base, Loop, Calls, denoise
  <1>9. latents.src \in Sources(n)' /\ latents.src \in Calls /\ Foremost(latents.src)
    BY <1>1, <1>7 DEF Sources, Value, Calls, RunInv
  <1>10. /\ HasTimestep(n)' /\ IsScheduler(n)' /\ Timed(n)' /\ ~IsStep(n)'
         /\ SchedulerCall(n)'
    BY <1>1, <1>7, <1>8
       DEF HasTimestep, IsScheduler, Timed, IsStep, NodeShape, SchedulerCall
  <1>11. IsTimestep(t)' /\ Arg(t, "index")' = Arg(t, "index")
    <2>1. IsTimestep(t)'
      BY <1>1, <1>4, <1>7, KeptTimed
    <2>2. t \in Calls /\ "index" \in ArgsOf(t)
      BY <1>4 DEF IsTimestep, Loop
    <2> QED
      BY <1>4, <1>7, <2>1, <2>2 DEF Kept
  <1>12. IterationOf(n)' = i /\ NextIndex(n)' = i
    BY <1>4, <1>7, <1>10, <1>11 DEF IterationOf, NextIndex
  <1>13. Foremost(n)'
    BY <1>1, <1>2, <1>7, <1>8, <1>9, NewForemost
  <1>14. Chained(n)' /\ IndexInv'
    <2>1. \A j \in Loop : Timed(j) => Reaches(n, j)'
      <3>1. \A j \in Loop : Timed(j) => Timed(j)'
        BY <1>1, <1>7, KeptTimed
      <3> QED
        BY <1>7, <1>13, <3>1 DEF Foremost
    <2> QED
      BY <1>1, <1>2, <1>6, <1>7, <1>10, <1>12, <2>1, NewTimed
  <1>15. /\ (\A a \in ArgsOf(n) : Mentions(Arg(n, a), n))'
         /\ (\A a \in ArgsOf(n) : ~IsLazy(Arg(n, a)))'
    <2>1. \A a \in DOMAIN args : Settled(args[a])
      BY <1>3, <1>5
    <2> QED
      BY <1>1, <1>2, <1>6, <2>1, SettledArguments
  <1>16. (IsTimestep(Arg(n, "timestep").src))'
    BY <1>4, <1>7, <1>11 DEF IsTimestep
  <1>17. CallInv(n)'
    BY <1>7, <1>10, <1>14, <1>15, <1>16 DEF CallInv
  <1>18. GraphInv'
    BY <1>1, <1>2, <1>6, <1>17, AddedGraph
  <1>19. latents'.src = n /\ latents'.out \notin LazyPorts
    BY <1>2, <1>6 DEF Made, Output, LazyPorts
  <1>20. RunInv'
    <2>1. NodeShape'
      BY <1>1, <1>2, KeptShape
    <2>2. Started'
      BY <1>1, <1>2, <1>7, <1>8, <1>19 DEF Started, Value
    <2>3. (\A s \in Calls : s = latents.src => Foremost(s))'
      BY <1>13, <1>19
    <2>4. Round'
      <3>1. Value(original)'
        BY <1>1, <1>2, <1>7, KeptValue DEF Round, Value
      <3>2. guided' <=> guided
        BY <1>2 DEF guided, denoise
      <3> QED
        BY <1>1, <1>2, <1>4, <1>7, <1>11, <3>1, <3>2 DEF Round
    <2>5. Predictions'
      BY <1>1, <1>2 DEF Round, Predictions
    <2> QED
      BY <1>2, <2>1, <2>2, <2>3, <2>4, <2>5 DEF RunInv
  <1>21. (guidance = Absent \/ Value(guidance))'
    BY <1>2, <1>7, KeptValue DEF UnrollInv, Value
  <1> QED
    BY <1>2, <1>14, <1>18, <1>20, <1>21 DEF UnrollInv

\* A prediction depends on all calls of the scheduler and, when there is a ControlNet,
\* on the control image.
LEMMA PredictionForemost ==
    ASSUME UnrollInv, RunInv, NEW c \in Loop, NEW b, Predicts(c, b)
    PROVE  Foremost(c) /\ Value(noise[b])
  <1>1. latents.src \in Calls /\ Foremost(latents.src) /\ c \in Calls
    BY DEF RunInv, Started, Value, Loop
  <1>2. latents.src \in Sources(c)
    <2>1. "latents" \in ArgsOf(c) /\ Arg(c, "latents") = latents /\ latents.src # 0
      BY <1>1 DEF Predicts, Calls
    <2> QED
      BY <2>1 DEF Sources
  <1>3. ASSUME NEW j \in Loop, Timed(j)
        PROVE  Reaches(c, j)
    <2>1. Reaches(latents.src, j)
      BY <1>1, <1>3 DEF Foremost
    <2> QED
      BY <1>2, <2>1 DEF Reaches, Closed
  <1>4. (denoise.adapters # << >> /\ i > 0) => Reaches(c, Cond)
    BY DEF Predicts
  <1>5. Value(noise[b])
    BY <1>1 DEF Predicts, Value
  <1> QED
    BY <1>3, <1>4, <1>5 DEF Foremost

\* A step of the scheduler takes a prediction and the timestep it was made for.
LEMMA StepOfScheduler ==
    ASSUME UnrollInv, pc = "step", NEW mode \in {"step", "step_classifier_free_guidance"},
           NEW args, Emit(Scheduler(mode, args)), EndOfIteration,
           {"timestep", "latents"} \subseteq DOMAIN args, args["timestep"] = timestep,
           \A a \in DOMAIN args : Settled(args[a]),
           NEW a \in DOMAIN args, NEW b, args[a] = noise[b],
           NEW c \in Loop, Predicts(c, b),
           NEW n, n = Len(nodes) + 1,
           mode = "step_classifier_free_guidance" =>
             (/\ {"noise_pred_uncond", "noise_pred_text", "timestep"} \subseteq ArgsOf(n)
              /\ Branched(n, Arg(n, "noise_pred_uncond").src,
                             Arg(n, "noise_pred_text").src))'
    PROVE  UnrollInv'
  <1>1. /\ GraphInv /\ IndexInv /\ RunInv /\ NodeShape /\ Started
        /\ Base + 1 \in Loop /\ timesteps.src = Base + 1 /\ timesteps.out \notin LazyPorts
        /\ i \in Nat /\ Base \in Nat /\ Round /\ Len(nodes) \in Nat
    BY SettledValues DEF UnrollInv, Running, InRound, RunInv, Started, IndexInv
  <1>2. /\ request' = request /\ i' = i + 1 /\ noise' = noise
        /\ latents' = Made("output_latents")
        /\ pc' \in {"rewire", "iterate"} /\ timesteps' = timesteps
        /\ iterations' = iterations /\ guidance' = guidance
        /\ nodes' = Append(nodes, Call(denoise.scheduler, mode, << >>, args))
    BY DEF EndOfIteration, Emit, Scheduler
  <1>3. PICK t \in Loop : /\ timestep.src = t /\ timestep.out \notin LazyPorts
                          /\ IsTimestep(t) /\ Arg(t, "index").no = i
    BY <1>1 DEF Round
  <1>4. timestep # Absent /\ noise[b] # Absent
    <2>1. Value(timestep)
      BY <1>3 DEF Value, Loop
    <2>2. Value(noise[b])
      BY <1>1, PredictionForemost
    <2> QED
      BY <2>1, <2>2, SettledValues
  <1>5. /\ Kept /\ n \in Loop' /\ Loop' = Loop \cup {n} /\ Calls' = Calls \cup {n}
        /\ n \in Nat /\ Len(nodes') = n
        /\ nodes'[n].op = denoise.scheduler /\ nodes'[n].mode = mode
        /\ {"timestep", a} \subseteq ArgsOf(n)'
        /\ Arg(n, "timestep")' = timestep /\ Arg(n, a)' = noise[b]
    <2>1. /\ Kept /\ n \in Loop' /\ Loop' = Loop \cup {n} /\ Calls' = Calls \cup {n}
          /\ n \in Nat /\ Len(nodes') = n
          /\ nodes'[n].op = denoise.scheduler /\ nodes'[n].mode = mode
          /\ ArgsOf(n)' = { x \in DOMAIN args : args[x] # Absent }
          /\ \A x \in DOMAIN args : args[x] # Absent => Arg(n, x)' = args[x]
      BY <1>1, <1>2, NewCall
    <2> QED
      BY <1>4, <2>1
  <1>6. Base' = Base /\ n # Base + 1 /\ denoise' = denoise
    BY <1>1, <1>2 DEF Base, Loop, Calls, denoise
  <1>7. c \in Sources(n)' /\ c \in Calls /\ Foremost(c)
    <2>1. c \in Calls /\ c # 0
      BY DEF Loop, Calls
    <2>2. noise[b].src = c
      BY DEF Predicts
    <2>3. c \in Sources(n)'
      BY <1>5, <2>1, <2>2 DEF Sources
    <2> QED
      BY <1>1, <2>1, <2>3, PredictionForemost
  <1>8. /\ HasTimestep(n)' /\ IsScheduler(n)' /\ Timed(n)' /\ IsStep(n)' /\ SchedulerCall(n)'
    BY <1>1, <1>5, <1>6
       DEF HasTimestep, IsScheduler, Timed, IsStep, NodeShape, SchedulerCall
  <1>9. IsTimestep(t)' /\ Arg(t, "index")' = Arg(t, "index")
    <2>1. IsTimestep(t)'
      BY <1>1, <1>3, <1>5, KeptTimed
    <2>2. t \in Calls /\ "index" \in ArgsOf(t)
      BY <1>3 DEF IsTimestep, Loop
    <2> QED
      BY <1>3, <1>5, <2>1, <2>2 DEF Kept
  <1>10. IterationOf(n)' = i /\ NextIndex(n)' = i + 1
    BY <1>3, <1>5, <1>8, <1>9 DEF IterationOf, NextIndex
  <1>11. Foremost(n)'
    <2>1. denoise.adapters # << >> => \A d : d = Cond => Reaches(n, d)'
      <3>1. \A d : Reaches(c, d) => Reaches(n, d)'
        BY <1>1, <1>5, <1>7, NewReach
      <3> QED
        BY <3>1 DEF Predicts
    <2> QED
      BY <1>1, <1>5, <1>6, <1>7, <2>1, NewForemost
  <1>12. Chained(n)' /\ IndexInv'
    <2>1. \A j \in Loop : Timed(j) => Reaches(n, j)'
      <3>1. \A j \in Loop : Timed(j) => Timed(j)'
        BY <1>1, <1>5, KeptTimed
      <3> QED
        BY <1>5, <1>11, <3>1 DEF Foremost
    <2> QED
      BY <1>1, <1>2, <1>5, <1>8, <1>10, <2>1, NewTimed
  <1>13. /\ (\A x \in ArgsOf(n) : Mentions(Arg(n, x), n))'
         /\ (\A x \in ArgsOf(n) : ~IsLazy(Arg(n, x)))'
    BY <1>1, <1>2, SettledArguments
  <1>14. (IsTimestep(Arg(n, "timestep").src))'
    BY <1>3, <1>5, <1>9 DEF IsTimestep
  <1>15. CallInv(n)'
    BY <1>5, <1>8, <1>12, <1>13, <1>14 DEF CallInv
  <1>16. GraphInv'
    BY <1>1, <1>2, <1>15, AddedGraph
  <1>17. latents'.src = n /\ latents'.out \notin LazyPorts
    BY <1>2 DEF Made, Output, LazyPorts
  <1>18. RunInv'
    <2>1. NodeShape'
      BY <1>1, <1>2, KeptShape
    <2>2. Started'
      BY <1>1, <1>2, <1>5, <1>6, <1>17 DEF Started, Value
    <2>3. (\A s \in Calls : s = latents.src => Foremost(s))'
      BY <1>11, <1>17
    <2> QED
      BY <1>2, <2>1, <2>2, <2>3 DEF RunInv, InRound
  <1>19. (guidance = Absent \/ Value(guidance))'
    BY <1>2, <1>5, KeptValue DEF UnrollInv, Value
  <1> QED
    BY <1>2, <1>12, <1>16, <1>18, <1>19 DEF UnrollInv

\* A step without guidance takes the one prediction of the round.
LEMMA StepPlain ==
    ASSUME UnrollInv, PlainStep
    PROVE  UnrollInv'
  <1> DEFINE args == [latents |-> original, timestep |-> timestep,
                      noise_pred |-> noise["plain"]]
  <1>1. RunInv /\ Round /\ Predictions /\ pc = "step" /\ ~guided
    BY DEF PlainStep, UnrollInv, Running, InRound, RunInv
  <1>2. PICK c \in Loop : Predicts(c, "plain")
    BY <1>1 DEF Predictions
  <1>3. Settled(original) /\ Settled(timestep) /\ Settled(noise["plain"])
    <2>1. Value(timestep) /\ Value(original)
      BY <1>1 DEF Round, Value, Loop
    <2>2. Value(noise["plain"])
      BY <1>1, <1>2, PredictionForemost
    <2> QED
      BY <2>1, <2>2, SettledValues
  <1>4. /\ \A a \in DOMAIN args : Settled(args[a])
        /\ {"timestep", "latents"} \subseteq DOMAIN args /\ args["timestep"] = timestep
        /\ "noise_pred" \in DOMAIN args /\ args["noise_pred"] = noise["plain"]
    BY <1>3
  <1>5. Emit(Scheduler("step", args)) /\ EndOfIteration
    BY DEF PlainStep
  <1> HIDE DEF args
  <1>6. PICK n : n = Len(nodes) + 1
    OBVIOUS
  <1> QED
    BY <1>1, <1>2, <1>4, <1>5, <1>6, StepOfScheduler

\* A step with guidance takes the two predictions of the round.
LEMMA StepGuided ==
    ASSUME UnrollInv, GuidedStep
    PROVE  UnrollInv'
  <1> DEFINE args == [latents |-> latents, timestep |-> timestep,
                      noise_pred_uncond |-> noise["uncond"],
                      noise_pred_text |-> noise["text"],
                      guidance_scale |-> denoise.guidance]
  <1>1. /\ GraphInv /\ RunInv /\ NodeShape /\ Started /\ Round /\ Predictions
        /\ pc = "step" /\ guided
    BY DEF GuidedStep, UnrollInv, Running, InRound, RunInv
  <1>2. PICK u \in Loop, t \in Loop : u # t /\ Predicts(u, "uncond") /\ Predicts(t, "text")
    BY <1>1 DEF Predictions
  <1>3. Value(latents) /\ Value(timestep) /\ Value(noise["uncond"]) /\ Value(noise["text"])
    <2>1. Value(timestep) /\ Value(latents)
      BY <1>1 DEF Round, Started, Value, Loop
    <2> QED
      BY <1>1, <1>2, <2>1, PredictionForemost
  <1>4. /\ \A a \in DOMAIN args : Settled(args[a])
        /\ {"timestep", "latents", "noise_pred_uncond", "noise_pred_text"} \subseteq DOMAIN args
        /\ args["timestep"] = timestep
        /\ args["noise_pred_uncond"] = noise["uncond"]
        /\ args["noise_pred_text"] = noise["text"]
    BY <1>1, <1>3, SettledValues DEF NodeShape
  <1>5. Emit(Scheduler("step_classifier_free_guidance", args)) /\ EndOfIteration
    BY DEF GuidedStep
  <1> HIDE DEF args
  <1>6. PICK n : n = Len(nodes) + 1
    OBVIOUS
  <1>7. /\ request' = request
        /\ nodes' = Append(nodes, Call(denoise.scheduler, "step_classifier_free_guidance",
                                       << >>, args))
    BY <1>5 DEF EndOfIteration, Emit, Scheduler
  <1>8. /\ Kept /\ {"noise_pred_uncond", "noise_pred_text", "timestep"} \subseteq ArgsOf(n)'
        /\ Arg(n, "timestep")' = timestep
        /\ Arg(n, "noise_pred_uncond")' = noise["uncond"]
        /\ Arg(n, "noise_pred_text")' = noise["text"]
    <2>1. /\ Kept /\ ArgsOf(n)' = { x \in DOMAIN args : args[x] # Absent }
          /\ \A x \in DOMAIN args : args[x] # Absent => Arg(n, x)' = args[x]
      BY <1>1, <1>6, <1>7, NewCall
    <2> QED
      BY <1>3, <1>4, <2>1, SettledValues
  <1>9. Branched(n, u, t)'
    <2>1. /\ u \in Loop' /\ t \in Loop' /\ base' = base
          /\ ArgsOf(u)' = ArgsOf(u) /\ \A a \in ArgsOf(u) : Arg(u, a)' = Arg(u, a)
          /\ ArgsOf(t)' = ArgsOf(t) /\ \A a \in ArgsOf(t) : Arg(t, a)' = Arg(t, a)
      BY <1>1, <1>8, KeptPlaces DEF Kept, Loop
    <2>2. /\ {"latents", "timestep", "prompt_embeds"} \subseteq ArgsOf(u)
          /\ {"latents", "timestep", "prompt_embeds"} \subseteq ArgsOf(t)
          /\ Arg(u, "latents") = latents /\ Arg(t, "latents") = latents
          /\ Arg(u, "timestep") = timestep /\ Arg(t, "timestep") = timestep
          /\ Arg(u, "prompt_embeds") = base.negative_prompt_embeds
          /\ Arg(t, "prompt_embeds") = base.prompt_embeds
      BY <1>2 DEF Predicts, Embeddings
    <2> QED
      BY <1>2, <1>8, <2>1, <2>2 DEF Branched
  <1>10. (Branched(n, Arg(n, "noise_pred_uncond").src, Arg(n, "noise_pred_text").src))'
    <2>1. \A x, y : (x = (Arg(n, "noise_pred_uncond").src)'
                       /\ y = (Arg(n, "noise_pred_text").src)') => Branched(n, x, y)'
      BY <1>2, <1>8, <1>9 DEF Predicts
    <2> QED
      BY <2>1, Zenon DEF Branched
  <1> QED
    BY <1>1, <1>2, <1>4, <1>5, <1>6, <1>8, <1>10, StepOfScheduler

-----------------------------------------------------------------------------
(* The calls for one prompt *)

\* Keyword arguments joined: the first ones win.
LEMMA JoinedArgs ==
    ASSUME NEW f, NEW g
    PROVE  /\ DOMAIN Joined(f, g) = DOMAIN f \cup DOMAIN g
           /\ \A a \in DOMAIN f : Joined(f, g)[a] = f[a]
           /\ \A a \in DOMAIN g : a \notin DOMAIN f => Joined(f, g)[a] = g[a]
  BY DEF Joined

\* What every call for a prompt is given.
LEMMA CommonArgsShape ==
    ASSUME UnrollInv, RunInv, InRound
    PROVE  /\ Shared \subseteq DOMAIN CommonArgs
           /\ DOMAIN CommonArgs \subseteq Shared \cup {"height", "width", "guidance"}
           /\ CommonArgs["latents"] = latents /\ CommonArgs["timestep"] = timestep
           /\ CommonArgs["prompt_embeds"] = Embeddings(branch).prompt_embeds
           /\ \A a \in DOMAIN CommonArgs : Settled(CommonArgs[a])
  <1> DEFINE f == [latents |-> latents, timestep |-> timestep]
             e == Embeddings(branch)
             g == Joined(f, e)
             h == Joined(SizeArgs, GuidanceArg)
  <1>1. /\ DOMAIN f = {"latents", "timestep"} /\ f["latents"] = latents
        /\ f["timestep"] = timestep
    OBVIOUS
  <1>2. /\ DOMAIN e = {"prompt_embeds", "pooled_prompt_embeds"}
        /\ e["prompt_embeds"] = Embeddings(branch).prompt_embeds
        /\ \A a \in DOMAIN e : Settled(e[a])
    <2>1. /\ Known(base.prompt_embeds) /\ Known(base.pooled_prompt_embeds)
          /\ Known(base.negative_prompt_embeds) /\ Known(base.negative_pooled_prompt_embeds)
      BY DEF RunInv, NodeShape, BaseInputs
    <2>2. /\ Settled(base.prompt_embeds) /\ Settled(base.pooled_prompt_embeds)
          /\ Settled(base.negative_prompt_embeds)
          /\ Settled(base.negative_pooled_prompt_embeds)
      BY <2>1, SettledValues
    <2> QED
      BY <2>2 DEF Embeddings
  <1>3. /\ DOMAIN SizeArgs \subseteq {"height", "width"}
        /\ \A a \in DOMAIN SizeArgs : Settled(SizeArgs[a])
    <2>1. Settled(base.height) /\ Settled(base.width)
      BY SettledValues DEF RunInv, NodeShape, BaseInputs
    <2> QED
      BY <2>1 DEF SizeArgs
  <1>4. /\ DOMAIN GuidanceArg \subseteq {"guidance"}
        /\ \A a \in DOMAIN GuidanceArg : Settled(GuidanceArg[a])
    <2>1. Settled(guidance)
      BY SettledValues DEF UnrollInv
    <2> QED
      BY <2>1 DEF GuidanceArg
  <1>5. Settled(latents) /\ Settled(timestep)
    <2>1. Value(latents) /\ Value(timestep)
      BY DEF RunInv, Started, Round, Value, Loop
    <2> QED
      BY <2>1, SettledValues
  <1>6. CommonArgs = Joined(g, h)
    BY DEF CommonArgs
  <1> HIDE DEF f, e
  <1>7. /\ DOMAIN g = DOMAIN f \cup DOMAIN e
        /\ \A a \in DOMAIN f : g[a] = f[a]
        /\ \A a \in DOMAIN e : a \notin DOMAIN f => g[a] = e[a]
    BY JoinedArgs
  <1>8. /\ DOMAIN h = DOMAIN SizeArgs \cup DOMAIN GuidanceArg
        /\ \A a \in DOMAIN SizeArgs : h[a] = SizeArgs[a]
        /\ \A a \in DOMAIN GuidanceArg : a \notin DOMAIN SizeArgs => h[a] = GuidanceArg[a]
    BY JoinedArgs
  <1> HIDE DEF g, h
  <1>9. /\ DOMAIN CommonArgs = DOMAIN g \cup DOMAIN h
        /\ \A a \in DOMAIN g : CommonArgs[a] = g[a]
        /\ \A a \in DOMAIN h : a \notin DOMAIN g => CommonArgs[a] = h[a]
    <2>1. /\ DOMAIN Joined(g, h) = DOMAIN g \cup DOMAIN h
          /\ \A a \in DOMAIN g : Joined(g, h)[a] = g[a]
          /\ \A a \in DOMAIN h : a \notin DOMAIN g => Joined(g, h)[a] = h[a]
      BY JoinedArgs
    <2> QED
      BY <1>6, <2>1, Zenon
  <1>10. \A a \in DOMAIN g : Settled(g[a])
    BY <1>1, <1>2, <1>5, <1>7
  <1>11. \A a \in DOMAIN h : Settled(h[a])
    BY <1>3, <1>4, <1>8
  <1>12. \A a \in DOMAIN CommonArgs : Settled(CommonArgs[a])
    BY <1>9, <1>10, <1>11
  <1>13. /\ CommonArgs["latents"] = latents /\ CommonArgs["timestep"] = timestep
         /\ CommonArgs["prompt_embeds"] = Embeddings(branch).prompt_embeds
    BY <1>1, <1>2, <1>7, <1>9
  <1>14. /\ Shared \subseteq DOMAIN CommonArgs
         /\ DOMAIN CommonArgs \subseteq Shared \cup {"height", "width", "guidance"}
    BY <1>1, <1>2, <1>3, <1>4, <1>7, <1>8, <1>9 DEF Shared
  <1> QED
    BY <1>12, <1>13, <1>14

\* A prediction is still one of this round.
LEMMA KeptPredicts ==
    ASSUME GraphInv, Kept, NEW c \in Loop, NEW b, Predicts(c, b), latents' = latents,
           timestep' = timestep, noise'[b] = noise[b]
    PROVE  c \in Loop' /\ Predicts(c, b)'
  <1>1. /\ c \in Calls /\ c \in Loop' /\ denoise' = denoise /\ base' = base /\ Cond' = Cond
    BY KeptPlaces DEF Loop
  <1>2. /\ ArgsOf(c)' = ArgsOf(c) /\ \A a \in ArgsOf(c) : Arg(c, a)' = Arg(c, a)
    BY <1>1 DEF Kept
  <1>3. Embeddings(b)' = Embeddings(b)
    BY <1>1, Zenon DEF Embeddings
  <1>4. denoise.adapters # << >> => \A d : d = Cond' => Reaches(c, d)'
    <2>1. \A d : Reaches(c, d) => Reaches(c, d)'
      BY <1>1, KeptReach
    <2> QED
      BY <1>1, <2>1 DEF Predicts
  <1>5. denoise.adapters # << >> => Reaches(c, Cond)'
    BY <1>4, Zenon DEF Reaches
  <1>6. /\ {"latents", "timestep", "prompt_embeds"} \subseteq ArgsOf(c)
        /\ Arg(c, "latents") = latents /\ Arg(c, "timestep") = timestep
        /\ Arg(c, "prompt_embeds") = Embeddings(b).prompt_embeds
        /\ noise[b].src = c /\ noise[b].out \notin LazyPorts
    BY DEF Predicts
  <1>7. /\ Arg(c, "latents")' = Arg(c, "latents") /\ Arg(c, "timestep")' = Arg(c, "timestep")
        /\ Arg(c, "prompt_embeds")' = Arg(c, "prompt_embeds")
    BY <1>2, <1>6
  <1>8. (/\ noise[b].src = c /\ noise[b].out \notin LazyPorts
         /\ {"latents", "timestep", "prompt_embeds"} \subseteq ArgsOf(c)
         /\ Arg(c, "latents") = latents /\ Arg(c, "timestep") = timestep
         /\ Arg(c, "prompt_embeds") = Embeddings(b).prompt_embeds)'
    BY <1>2, <1>3, <1>6, <1>7
  <1> QED
    BY <1>1, <1>5, <1>8 DEF Predicts

\* The round goes on.
LEMMA KeptRound ==
    ASSUME GraphInv, Kept, Round, UNCHANGED <<i, iterations, timestep, original>>,
           branch' \in (IF guided THEN {"uncond", "text"} ELSE {"plain"}), pc' # "scale",
           pc' = "step" => branch' # "uncond"
    PROVE  Round'
  <1>1. PICK t \in Loop : /\ timestep.src = t /\ timestep.out \notin LazyPorts
                          /\ IsTimestep(t) /\ Arg(t, "index").no = i
    BY DEF Round
  <1>2. IsTimestep(t)' /\ t \in Loop'
    BY <1>1, KeptTimed, KeptPlaces
  <1>3. Arg(t, "index")' = Arg(t, "index")
    <2>1. t \in Calls /\ "index" \in ArgsOf(t)
      BY <1>1 DEF IsTimestep, Loop
    <2> QED
      BY <1>1, <2>1 DEF Kept
  <1>4. Value(original)'
    BY KeptValue DEF Round, Value
  <1>5. guided' <=> guided
    BY DEF Kept, guided, denoise
  <1> QED
    BY <1>1, <1>2, <1>3, <1>4, <1>5 DEF Round

\* A call with the timestep of the round is one of the iteration.
LEMMA TimestepOfRound ==
    ASSUME GraphInv, Kept, Round, NEW n, Arg(n, "timestep")' = timestep
    PROVE  IterationOf(n)' = i
  <1>1. PICK t \in Loop : /\ timestep.src = t
                          /\ IsTimestep(t) /\ Arg(t, "index").no = i
    BY DEF Round
  <1>2. Arg(t, "index")' = Arg(t, "index")
    <2>1. t \in Calls /\ "index" \in ArgsOf(t)
      BY <1>1 DEF IsTimestep, Loop
    <2> QED
      BY <1>1, <2>1 DEF Kept
  <1> QED
    BY <1>1, <1>2 DEF IterationOf

\* A call for a prompt, of no scheduler, with arguments of its own: lazy ones are
\* residuals of a call that it matches.
LEMMA PromptCall ==
    ASSUME UnrollInv, RunInv, InRound, request' = request, i' = i,
           NEW op, op \notin SchedulerOps, NEW patches, NEW args,
           nodes' = Append(nodes, Call(op, "default", patches, args)),
           NEW n, n = Len(nodes) + 1,
           DOMAIN CommonArgs \subseteq DOMAIN args,
           \A a \in DOMAIN CommonArgs : args[a] = CommonArgs[a],
           (\A a \in ArgsOf(n) : Mentions(Arg(n, a), n))',
           (\A a \in ArgsOf(n) : IsLazy(Arg(n, a)) => Overtakes(n, Arg(n, a).src))'
    PROVE  /\ GraphInv' /\ IndexInv' /\ \A s \in Calls : Foremost(s) => Foremost(s)'
           /\ {"latents", "timestep"} \subseteq ArgsOf(n)'
           /\ IterationOf(n)' = i
  <1>1. /\ GraphInv /\ IndexInv /\ Base + 1 \in Loop /\ Base \in Nat /\ Len(nodes) \in Nat
        /\ Round /\ Base' = Base /\ Value(latents)
    BY SettledValues DEF UnrollInv, RunInv, Started, InRound, Base
  <1>2. PICK t \in Loop : /\ timestep.src = t /\ timestep.out \notin LazyPorts
                          /\ IsTimestep(t) /\ Arg(t, "index").no = i
    BY <1>1 DEF Round
  <1>3. /\ Kept /\ nodes'[n].op = op /\ nodes'[n].mode = "default"
        /\ ArgsOf(n)' = { a \in DOMAIN args : args[a] # Absent }
        /\ \A a \in DOMAIN args : args[a] # Absent => Arg(n, a)' = args[a]
    BY <1>1, NewCall
  <1>4. n # Base + 1
    BY <1>1 DEF Loop, Calls
  <1>5. /\ {"latents", "timestep"} \subseteq ArgsOf(n)'
        /\ Arg(n, "timestep")' = timestep
    <2>1. timestep # Absent /\ latents # Absent
      <3>1. Value(timestep)
        BY <1>2 DEF Value, Loop
      <3> QED
        BY <1>1, <3>1, SettledValues
    <2>2. args["timestep"] = timestep /\ args["latents"] = latents
      BY CommonArgsShape DEF Shared
    <2> QED
      BY <1>3, <2>1, <2>2, CommonArgsShape DEF Shared
  <1>6. IsTimestep(t)' /\ Arg(t, "index")' = Arg(t, "index")
    <2>1. IsTimestep(t)'
      BY <1>1, <1>2, <1>3, KeptTimed
    <2>2. t \in Calls /\ "index" \in ArgsOf(t)
      BY <1>2 DEF IsTimestep, Loop
    <2> QED
      BY <1>2, <1>3, <2>1, <2>2 DEF Kept
  <1>7. (IsTimestep(Arg(n, "timestep").src))'
    BY <1>2, <1>5, <1>6 DEF IsTimestep
  <1>8. IterationOf(n)' = i
    BY <1>2, <1>5, <1>6 DEF IterationOf
  <1>9. ~IsScheduler(n)' /\ ~Timed(n)' /\ SchedulerCall(n)'
    BY <1>1, <1>3, <1>4 DEF IsScheduler, Timed, SchedulerCall
  <1>10. nodes'[n].mode # "step_classifier_free_guidance"
    BY <1>3
  <1>11. CallInv(n)'
    BY <1>7, <1>9, <1>10 DEF CallInv
  <1> QED
    BY <1>1, <1>5, <1>8, <1>9, <1>11, UntimedAdded

\* The common arguments depend on the prompt, the latents and the timestep only.
LEMMA SameCommonArgs ==
    ASSUME UNCHANGED <<request, branch, latents, timestep, guidance>>
    PROVE  CommonArgs' = CommonArgs
  BY DEF CommonArgs, Joined, Embeddings, SizeArgs, GuidanceArg, isXL, isFlux, denoise, base

\* What run_adapters hands on are outputs of the call it has made.
LEMMA SamplesShape ==
    ASSUME NEW op
    PROVE  /\ DOMAIN SamplesOf(op) # {}
           /\ DOMAIN SamplesOf(op) \cap (Shared \cup {"height", "width", "guidance"}) = {}
           /\ \A s \in DOMAIN SamplesOf(op) : SamplesOf(op)[s].src = Len(nodes) + 1
  <1>1. /\ { SampleNames[j] : j \in 1..Len(SampleNames) } # {}
        /\ { SampleNames[j] : j \in 1..Len(SampleNames) } \subseteq LazyPorts
    BY DEF SampleNames, LazyPorts
  <1>2. LazyPorts \cap (Shared \cup {"height", "width", "guidance"}) = {}
    BY DEF LazyPorts, Shared
  <1>3. DOMAIN SamplesOf(op) = { SampleNames[j] : j \in 1..Len(SampleNames) }
    BY DEF SamplesOf
  <1>4. \A s \in DOMAIN SamplesOf(op) : SamplesOf(op)[s].src = Len(nodes) + 1
    BY DEF SamplesOf, Made, Output
  <1> QED
    BY <1>1, <1>2, <1>3, <1>4

\* The ControlNet is called with what the model is about to be called with.
LEMMA StepRunAdapters ==
    ASSUME UnrollInv, RunAdapters
    PROVE  UnrollInv'
  <1>1. /\ GraphInv /\ IndexInv /\ RunInv /\ NodeShape /\ Started /\ Round /\ Predictions
        /\ pc = "adapters" /\ InRound
        /\ \A s \in Calls : s = latents.src => Foremost(s)
    BY DEF RunAdapters, UnrollInv, Running, InRound, RunInv
  <1>2. /\ request' = request /\ branch' = branch /\ i' = i /\ iterations' = iterations
        /\ latents' = latents /\ original' = original /\ timesteps' = timesteps
        /\ timestep' = timestep /\ guidance' = guidance /\ noise' = noise /\ pc' = "model"
    BY DEF RunAdapters
  <1>3. denoise' = denoise /\ Cond' = Cond /\ Base' = Base
    BY <1>2 DEF denoise, Cond, Base
  <1>4. ASSUME Kept, GraphInv', IndexInv',
               \A s \in Calls : Foremost(s) => Foremost(s)',
               IF denoise.adapters = << >> THEN samples' = NoSamples
               ELSE \E c \in Loop' : SampledFrom(c)'
        PROVE  UnrollInv'
    <2>1. NodeShape'
      BY <1>1, <1>2, KeptShape
    <2>2. Calls \subseteq Calls' /\ Loop \subseteq Loop'
      BY <1>1, <1>4, KeptPlaces
    <2>3. Started'
      BY <1>1, <1>2, <1>3, <1>4, <2>2, KeptValue DEF Started, Value
    <2>4. (\A s \in Calls : s = latents.src => Foremost(s))'
      BY <1>1, <1>2, <1>4, <2>2, LatentsStay
    <2>5. Round'
      BY <1>1, <1>2, <1>4, KeptRound DEF Round
    <2>6. Predictions'
      <3>1. SUFFICES ASSUME branch = "text"
                     PROVE  (\E u \in Loop : Predicts(u, "uncond"))'
        BY <1>2 DEF Predictions
      <3>2. PICK u \in Loop : Predicts(u, "uncond")
        BY <1>1, <3>1 DEF Predictions
      <3>3. u \in Loop' /\ Predicts(u, "uncond")'
        BY <1>1, <1>2, <1>4, <3>2, KeptPredicts
      <3> QED
        BY <3>3
    <2>7. RunInv'
      BY <1>2, <1>3, <1>4, <2>1, <2>3, <2>4, <2>5, <2>6 DEF RunInv
    <2>8. (guidance = Absent \/ Value(guidance))'
      BY <1>2, <1>4, KeptValue DEF UnrollInv, Value
    <2> QED
      BY <1>2, <1>4, <2>7, <2>8 DEF UnrollInv
  <1>5. CASE denoise.adapters = << >>
    <2>1. nodes' = nodes /\ samples' = NoSamples
      BY <1>5 DEF RunAdapters
    <2>2. /\ Kept /\ GraphInv' /\ IndexInv'
          /\ \A s \in Calls : Foremost(s) => Foremost(s)'
      BY <1>1, <1>2, <2>1, SameGraph
    <2> QED
      BY <1>4, <1>5, <2>1, <2>2
  <1>6. CASE denoise.adapters # << >>
    <2> DEFINE adapter == denoise.adapters[1]
               own == [controlnet_cond |-> adapter.cond, conditioning_scale |-> adapter.scale]
               args == Joined(CommonArgs, own)
    <2>1. /\ nodes' = Append(nodes, Call(adapter.op, "default", << >>, args))
          /\ samples' = SamplesOf(adapter.op)
      BY <1>6 DEF RunAdapters, Emit
    <2>2. /\ adapter.op \notin SchedulerOps /\ Known(adapter.cond) /\ Known(adapter.scale)
          /\ adapter.scale.src = 0 /\ adapter.cond.src = Cond /\ Cond > 0 /\ Cond \in 0..Base
      BY <1>1, <1>6 DEF NodeShape, Cond, Known
    <2>3. /\ DOMAIN own = {"controlnet_cond", "conditioning_scale"}
          /\ own["controlnet_cond"] = adapter.cond
          /\ own["conditioning_scale"] = adapter.scale
          /\ \A a \in DOMAIN own : Settled(own[a])
      BY <2>2, SettledValues
    <2> HIDE DEF own, adapter
    <2>5. /\ DOMAIN args = DOMAIN CommonArgs \cup DOMAIN own
          /\ \A a \in DOMAIN CommonArgs : args[a] = CommonArgs[a]
          /\ \A a \in DOMAIN own : a \notin DOMAIN CommonArgs => args[a] = own[a]
      BY JoinedArgs
    <2> HIDE DEF args
    <2>6. \A a \in DOMAIN args : Settled(args[a])
      BY <1>1, <2>3, <2>5, CommonArgsShape
    <2>7. PICK n : n = Len(nodes) + 1
      OBVIOUS
    <2>8. /\ Kept /\ n \in Loop' /\ n \in Nat
          /\ ArgsOf(n)' = { a \in DOMAIN args : args[a] # Absent }
          /\ \A a \in DOMAIN args : args[a] # Absent => Arg(n, a)' = args[a]
      BY <1>1, <1>2, <2>1, <2>7, NewCall
    <2>9. /\ (\A a \in ArgsOf(n) : Mentions(Arg(n, a), n))'
          /\ (\A a \in ArgsOf(n) : ~IsLazy(Arg(n, a)))'
      BY <1>1, <1>2, <2>1, <2>6, <2>7, SettledArguments
    <2>10. (\A a \in ArgsOf(n) : IsLazy(Arg(n, a)) => Overtakes(n, Arg(n, a).src))'
      BY <2>9
    <2>11. GraphInv' /\ IndexInv' /\ \A s \in Calls : Foremost(s) => Foremost(s)'
      BY <1>1, <1>2, <2>1, <2>2, <2>5, <2>7, <2>9, <2>10, PromptCall
    <2>12. CommonArgs' = CommonArgs
      BY <1>2, SameCommonArgs
    <2>13. Cond \in Sources(n)' /\ Cond \in Calls
      <3>1. "controlnet_cond" \notin DOMAIN CommonArgs
        BY <1>1, CommonArgsShape DEF Shared
      <3>2. args["controlnet_cond"] = adapter.cond /\ "controlnet_cond" \in DOMAIN args
        BY <2>3, <2>5, <3>1
      <3>3. Absent.src = 0
        BY DEF Absent
      <3>4. adapter.cond # Absent
        BY <2>2, <3>3
      <3>5. "controlnet_cond" \in ArgsOf(n)' /\ Arg(n, "controlnet_cond")'.src = Cond
        BY <2>2, <2>8, <3>2, <3>4
      <3>6. Cond \in Calls
        BY <2>2, SettledValues DEF Calls
      <3> QED
        BY <2>2, <3>5, <3>6 DEF Sources
    <2>14. Reaches(n, Cond)'
      <3>1. \A d : d = Cond' => Reaches(n, d)'
        BY <1>1, <1>3, <2>8, <2>13, NewReach
      <3> QED
        BY <3>1, Zenon DEF Reaches
    <2>15. SampledFrom(n)'
      <3>1. /\ DOMAIN samples' # {} /\ \A s \in DOMAIN samples' : samples'[s].src = n
            /\ DOMAIN samples' \cap DOMAIN CommonArgs = {}
        <4>1. /\ DOMAIN SamplesOf(adapter.op) # {}
              /\ DOMAIN SamplesOf(adapter.op) \cap (Shared \cup {"height", "width", "guidance"}) = {}
              /\ \A s \in DOMAIN SamplesOf(adapter.op) :
                   SamplesOf(adapter.op)[s].src = Len(nodes) + 1
          BY SamplesShape
        <4>2. DOMAIN CommonArgs \subseteq Shared \cup {"height", "width", "guidance"}
          BY <1>1, CommonArgsShape
        <4> QED
          BY <2>1, <2>7, <4>1, <4>2
      <3>2. \A b \in DOMAIN CommonArgs :
              CommonArgs[b] # Absent => b \in ArgsOf(n)' /\ Arg(n, b)' = CommonArgs[b]
        BY <2>5, <2>8
      <3>3. ASSUME NEW a \in ArgsOf(n)'
            PROVE  \/ Arg(n, a)'.src \in {0, Cond}
                   \/ a \in DOMAIN CommonArgs /\ Arg(n, a)' = CommonArgs[a]
        <4>1. a \in DOMAIN args /\ Arg(n, a)' = args[a]
          BY <2>8, <3>3
        <4>2. CASE a \in DOMAIN CommonArgs
          BY <2>5, <4>1, <4>2
        <4>3. CASE a \notin DOMAIN CommonArgs
          BY <2>2, <2>3, <2>5, <4>1, <4>3
        <4> QED
          BY <4>2, <4>3
      <3> QED
        BY <1>3, <2>12, <2>14, <3>1, <3>2, <3>3 DEF SampledFrom
    <2> QED
      BY <1>4, <1>6, <2>8, <2>11, <2>15
  <1> QED
    BY <1>5, <1>6

\* The model takes the residuals of the call made for its prompt.
LEMMA StepRunModel ==
    ASSUME UnrollInv, RunModel
    PROVE  UnrollInv'
  <1> DEFINE args == Joined(CommonArgs, samples)
  <1>1. /\ GraphInv /\ IndexInv /\ RunInv /\ NodeShape /\ Started /\ Round /\ Predictions
        /\ pc = "model" /\ InRound
        /\ \A s \in Calls : s = latents.src => Foremost(s)
        /\ IF denoise.adapters = << >> THEN samples = NoSamples
           ELSE \E c \in Loop : SampledFrom(c)
        /\ DOMAIN noise = Branches /\ branch \in Branches
    BY DEF RunModel, UnrollInv, Running, InRound, RunInv, Round, Branches
  <1>2. /\ request' = request /\ i' = i /\ iterations' = iterations
        /\ latents' = latents /\ original' = original /\ timesteps' = timesteps
        /\ timestep' = timestep /\ guidance' = guidance
        /\ nodes' = Append(nodes, Call(denoise.model, "default", denoise.patches, args))
        /\ noise' = [noise EXCEPT ![branch] = Made("noise_pred")]
        /\ IF branch = "uncond" THEN branch' = "text" /\ pc' = "adapters"
           ELSE pc' = "step" /\ branch' = branch
    BY DEF RunModel, Emit
  <1>3. denoise' = denoise /\ base' = base /\ Cond' = Cond /\ Base' = Base
    BY <1>2 DEF denoise, base, Cond, Base
  <1>4. /\ DOMAIN args = DOMAIN CommonArgs \cup DOMAIN samples
        /\ \A a \in DOMAIN CommonArgs : args[a] = CommonArgs[a]
        /\ \A a \in DOMAIN samples : a \notin DOMAIN CommonArgs => args[a] = samples[a]
    BY JoinedArgs
  <1> HIDE DEF args
  <1>5. /\ Shared \subseteq DOMAIN CommonArgs
        /\ CommonArgs["latents"] = latents /\ CommonArgs["timestep"] = timestep
        /\ CommonArgs["prompt_embeds"] = Embeddings(branch).prompt_embeds
        /\ \A a \in DOMAIN CommonArgs : Settled(CommonArgs[a])
    BY <1>1, CommonArgsShape
  <1>6. PICK n : n = Len(nodes) + 1
    OBVIOUS
  <1>7. /\ Kept /\ n \in Loop' /\ n \in Nat /\ n \notin Calls
        /\ ArgsOf(n)' = { a \in DOMAIN args : args[a] # Absent }
        /\ \A a \in DOMAIN args : args[a] # Absent => Arg(n, a)' = args[a]
    BY <1>1, <1>2, <1>6, NewCall
  <1>8. Calls \subseteq Calls' /\ Loop \subseteq Loop'
    BY <1>1, <1>7, KeptPlaces
  <1>9. latents.src \in Calls /\ latents.src \in Sources(n)' /\ Foremost(latents.src)
        /\ latents # Absent /\ timestep # Absent
    <2>1. Value(latents) /\ Value(timestep)
      BY <1>1 DEF Started, Round, Value, Loop
    <2>2. latents.src \in Calls /\ latents # Absent /\ timestep # Absent
      BY <2>1, SettledValues DEF Value
    <2>3. "latents" \in ArgsOf(n)' /\ Arg(n, "latents")' = latents
      BY <1>4, <1>5, <1>7, <2>2 DEF Shared
    <2>4. latents.src # 0
      BY <2>2 DEF Calls
    <2> QED
      BY <1>1, <2>2, <2>3, <2>4 DEF Sources
  <1>10. ASSUME NEW a \in ArgsOf(n)', a \in DOMAIN CommonArgs
         PROVE  /\ Arg(n, a)' = CommonArgs[a] /\ Mentions(Arg(n, a), n)'
                /\ ~IsLazy(Arg(n, a)')
    <2>1. Arg(n, a)' = CommonArgs[a] /\ CommonArgs[a] # Absent
      BY <1>4, <1>7, <1>10
    <2>2. CommonArgs[a].src \in 0..Len(nodes) /\ CommonArgs[a].out \notin LazyPorts
      BY <1>5, <1>10, <2>1 DEF Settled
    <2> QED
      BY <1>6, <1>7, <2>1, <2>2, SettledValues DEF Mentions, IsLazy
  <1>11. ASSUME NEW a \in ArgsOf(n)', a \notin DOMAIN CommonArgs
         PROVE  /\ denoise.adapters # << >> /\ a \in DOMAIN samples
                /\ Arg(n, a)' = samples[a]
    <2>1. a \in DOMAIN samples /\ Arg(n, a)' = samples[a]
      BY <1>4, <1>7, <1>11
    <2>2. DOMAIN NoSamples = {}
      BY DEF NoSamples
    <2> QED
      BY <1>1, <2>1, <2>2
  <1>12. ASSUME NEW c \in Loop, SampledFrom(c), denoise.adapters # << >>
         PROVE  Overtakes(n, c)'
    <2>1. c \in Loop' /\ ArgsOf(c)' = ArgsOf(c) /\ \A b \in ArgsOf(c) : Arg(c, b)' = Arg(c, b)
      BY <1>1, <1>7, <1>8 DEF Kept, Loop
    <2>2. (\A b \in Shared : b \in ArgsOf(n) => b \in ArgsOf(c) /\ Arg(c, b) = Arg(n, b))'
      <3>1. SUFFICES ASSUME NEW b \in Shared, b \in ArgsOf(n)'
                     PROVE  b \in ArgsOf(c)' /\ Arg(c, b)' = Arg(n, b)'
        OBVIOUS
      <3>2. b \in DOMAIN CommonArgs /\ Arg(n, b)' = CommonArgs[b] /\ CommonArgs[b] # Absent
        BY <1>4, <1>5, <1>7, <3>1
      <3> QED
        BY <1>12, <2>1, <3>2 DEF SampledFrom
    <2>3. ASSUME NEW b \in ArgsOf(c)
          PROVE  Arg(c, b)'.src \in {0, Cond} \cup EagerSources(n)'
      <3>1. CASE Arg(c, b).src \in {0, Cond}
        BY <2>1, <3>1
      <3>2. CASE b \in DOMAIN CommonArgs /\ Arg(c, b) = CommonArgs[b]
        <4>1. CASE CommonArgs[b] = Absent
          <5>1. Absent.src = 0
            BY DEF Absent
          <5> QED
            BY <2>1, <3>2, <4>1, <5>1
        <4>2. CASE CommonArgs[b] # Absent
          <5>1. b \in ArgsOf(n)' /\ Arg(n, b)' = Arg(c, b)' /\ ~IsLazy(Arg(n, b)')
            BY <1>4, <1>7, <1>10, <2>1, <3>2, <4>2
          <5> QED
            BY <5>1 DEF EagerSources
        <4> QED
          BY <4>1, <4>2
      <3> QED
        BY <1>12, <3>1, <3>2 DEF SampledFrom
    <2>4. HasTimestep(n)'
      BY <1>4, <1>5, <1>7, <1>9 DEF HasTimestep, Shared
    <2>5. ASSUME i > 0
          PROVE  (\E s \in EagerSources(n) : Reaches(s, Cond))'
      <3>1. Reaches(latents.src, Cond)
        BY <1>9, <1>12, <2>5 DEF Foremost
      <3>2. \A d : d = Cond' => Reaches(latents.src, d)
        BY <1>3, <3>1
      <3>3. \A s \in Calls : s = latents.src => \A d : d = Cond' => Reaches(s, d)'
        BY <1>1, <1>7, <3>2, KeptReach
      <3>4. latents.src \in EagerSources(n)'
        <4>1. "latents" \in ArgsOf(n)' /\ Arg(n, "latents")' = latents
              /\ ~IsLazy(Arg(n, "latents")') /\ latents.src # 0
          BY <1>4, <1>5, <1>7, <1>9, <1>10 DEF Shared, Calls
        <4> QED
          BY <4>1 DEF EagerSources
      <3>5. \A s \in Calls : s = latents.src => Reaches(s, Cond)'
        BY <3>3, Zenon DEF Reaches
      <3> QED
        BY <1>9, <3>4, <3>5
    <2>6. (\A b \in ArgsOf(c) : Arg(c, b).src \in {0, Cond} \cup EagerSources(n))'
      BY <1>3, <2>1, <2>3
    <2>7. IterationOf(n)' = i
      <3>1. Arg(n, "timestep")' = timestep
        BY <1>4, <1>5, <1>7, <1>9 DEF Shared
      <3> QED
        BY <1>1, <1>7, <3>1, TimestepOfRound
    <2>8. (IterationOf(n) > 0 => \E s \in EagerSources(n) : Reaches(s, Cond))'
      BY <2>5, <2>7
    <2> QED
      BY <2>1, <2>2, <2>4, <2>6, <2>8 DEF Overtakes
  <1>13. (\A a \in ArgsOf(n) : Mentions(Arg(n, a), n))'
    <2>1. ASSUME NEW a \in ArgsOf(n)', a \notin DOMAIN CommonArgs
          PROVE  Mentions(Arg(n, a), n)'
      <3>1. a \in DOMAIN samples /\ Arg(n, a)' = samples[a] /\ denoise.adapters # << >>
        BY <1>11, <2>1
      <3>2. PICK c \in Loop : SampledFrom(c)
        BY <1>1, <3>1
      <3>3. Arg(n, a)'.src = c /\ c \in 1..Len(nodes) /\ Len(nodes) \in Nat
        BY <3>1, <3>2, <1>7 DEF SampledFrom, Loop, Calls, Kept
      <3> QED
        BY <1>6, <3>3 DEF Mentions
    <2> QED
      BY <1>10, <2>1
  <1>14. (\A a \in ArgsOf(n) : IsLazy(Arg(n, a)) => Overtakes(n, Arg(n, a).src))'
    <2>1. SUFFICES ASSUME NEW a \in ArgsOf(n)', IsLazy(Arg(n, a))'
                   PROVE  Overtakes(n, Arg(n, a).src)'
      OBVIOUS
    <2>2. a \notin DOMAIN CommonArgs
      BY <1>10, <2>1 DEF IsLazy
    <2>3. a \in DOMAIN samples /\ Arg(n, a)' = samples[a] /\ denoise.adapters # << >>
      BY <1>11, <2>1, <2>2
    <2>4. PICK c \in Loop : SampledFrom(c)
      BY <1>1, <2>3
    <2>5. Arg(n, a)'.src = c
      BY <2>3, <2>4 DEF SampledFrom
    <2>6. Overtakes(n, c)'
      BY <1>12, <2>3, <2>4
    <2>7. \A d : d = (Arg(n, a).src)' => Overtakes(n, d)'
      BY <2>5, <2>6
    <2> QED
      BY <2>7, Zenon DEF Overtakes
  <1>15. /\ GraphInv' /\ IndexInv' /\ \A s \in Calls : Foremost(s) => Foremost(s)'
         /\ {"latents", "timestep"} \subseteq ArgsOf(n)'
    <2>1. denoise.model \notin SchedulerOps
      BY <1>1 DEF NodeShape
    <2>2. DOMAIN CommonArgs \subseteq DOMAIN args
      BY <1>4
    <2> QED
      BY <1>1, <1>2, <1>4, <1>6, <1>13, <1>14, <2>1, <2>2, PromptCall
  <1>16. PICK b \in Branches : b = branch
    BY <1>1
  <1>17. CommonArgs["prompt_embeds"] # Absent
    <2>1. branch = "uncond" => denoise.guidance # Absent
      BY <1>1 DEF Round, guided
    <2> QED
      BY <1>1, <1>5, <2>1 DEF NodeShape, Embeddings
  <1>18. denoise.adapters # << >> => Reaches(n, Cond)'
    <2>1. ASSUME denoise.adapters # << >>
          PROVE  Reaches(n, Cond)'
      <3>1. PICK c \in Loop : SampledFrom(c)
        BY <1>1, <2>1
      <3>2. PICK a \in DOMAIN samples : a \notin DOMAIN CommonArgs
        BY <3>1 DEF SampledFrom
      <3>3. samples[a].src = c /\ Reaches(c, Cond)
        BY <3>1 DEF SampledFrom
      <3>4. c \in Calls /\ c # 0
        BY DEF Loop, Calls
      <3>5. Absent.src = 0
        BY DEF Absent
      <3>6. a \in ArgsOf(n)' /\ Arg(n, a)' = samples[a]
        BY <1>4, <1>7, <3>2, <3>3, <3>4, <3>5
      <3>7. c \in Sources(n)'
        BY <3>3, <3>4, <3>6 DEF Sources
      <3>8. \A d : d = Cond' => Reaches(n, d)'
        BY <1>1, <1>3, <1>7, <3>3, <3>4, <3>7, NewReach
      <3> QED
        BY <3>8, Zenon DEF Reaches
    <2> QED
      BY <2>1
  <1>19. Predicts(n, b)'
    <2>1. noise'[b].src = n /\ noise'[b].out \notin LazyPorts
      BY <1>1, <1>2, <1>6, <1>16 DEF Made, Output, LazyPorts
    <2>2. /\ {"latents", "timestep", "prompt_embeds"} \subseteq ArgsOf(n)'
          /\ Arg(n, "latents")' = latents /\ Arg(n, "timestep")' = timestep
          /\ Arg(n, "prompt_embeds")' = CommonArgs["prompt_embeds"]
      BY <1>4, <1>5, <1>7, <1>9, <1>17 DEF Shared
    <2>3. CommonArgs["prompt_embeds"] = (Embeddings(b).prompt_embeds)'
      BY <1>3, <1>5, <1>16 DEF Embeddings
    <2>4. (denoise.adapters # << >> => Reaches(n, Cond))'
      BY <1>3, <1>18
    <2> QED
      BY <1>2, <2>1, <2>2, <2>3, <2>4 DEF Predicts
  <1>20. guided' <=> guided
    BY <1>2, <1>3 DEF guided
  <1>21. Round'
    <2>1. /\ branch' \in (IF guided THEN {"uncond", "text"} ELSE {"plain"})
          /\ pc' # "scale" /\ (pc' = "step" => branch' # "uncond")
      BY <1>1, <1>2 DEF Round
    <2> QED
      BY <1>1, <1>2, <1>7, <2>1, KeptRound
  <1>22. Predictions'
    <2>1. CASE branch = "uncond"
      <3>1. (\E u \in Loop : Predicts(u, "uncond"))'
        BY <1>7, <1>16, <1>19, <2>1
      <3> QED
        BY <1>2, <2>1, <3>1 DEF Predictions
    <2>2. CASE branch = "text"
      <3>1. guided
        BY <1>1, <2>2 DEF Round
      <3>2. PICK u \in Loop : Predicts(u, "uncond")
        BY <1>1, <2>2 DEF Predictions
      <3>3. u \in Loop' /\ Predicts(u, "uncond")'
        <4>1. noise'["uncond"] = noise["uncond"]
          BY <1>1, <1>2, <2>2 DEF Branches
        <4> QED
          BY <1>1, <1>2, <1>7, <3>2, <4>1, KeptPredicts
      <3>4. Predicts(n, "text")'
        BY <1>16, <1>19, <2>2
      <3>5. u # n
        BY <1>7, <3>2 DEF Loop
      <3>6. (\E u1, t1 \in Loop : u1 # t1 /\ Predicts(u1, "uncond") /\ Predicts(t1, "text"))'
        BY <1>7, <3>3, <3>4, <3>5
      <3> QED
        BY <1>2, <1>20, <2>2, <3>1, <3>6 DEF Predictions
    <2>3. CASE branch = "plain"
      <3>1. ~guided
        BY <1>1, <2>3 DEF Round
      <3>2. (\E c \in Loop : Predicts(c, "plain"))'
        BY <1>7, <1>16, <1>19, <2>3
      <3> QED
        BY <1>2, <1>20, <2>3, <3>1, <3>2 DEF Predictions
    <2> QED
      BY <1>1, <2>1, <2>2, <2>3 DEF Branches
  <1>23. RunInv'
    <2>1. NodeShape'
      BY <1>1, <1>2, KeptShape
    <2>2. Started'
      BY <1>1, <1>2, <1>3, <1>7, <1>8, KeptValue DEF Started, Value
    <2>3. (\A s \in Calls : s = latents.src => Foremost(s))'
      BY <1>1, <1>2, <1>8, <1>15, LatentsStay
    <2> QED
      BY <1>2, <1>21, <1>22, <2>1, <2>2, <2>3 DEF RunInv
  <1>24. (guidance = Absent \/ Value(guidance))'
    BY <1>2, <1>7, KeptValue DEF UnrollInv, Value
  <1> QED
    BY <1>1, <1>2, <1>15, <1>23, <1>24 DEF UnrollInv

-----------------------------------------------------------------------------
(* The end of unrolling *)

\* Only calls of the workflow name the denoised latents.
LEMMA StepRewire ==
    ASSUME UnrollInv, Rewire
    PROVE  UnrollInv'
  <1>1. /\ GraphInv /\ IndexInv /\ RunInv /\ NodeShape /\ Started /\ Value(latents)
        /\ pc = "rewire" /\ Len(nodes) \in Nat
    BY SettledValues DEF Rewire, UnrollInv, Running, RunInv, Started
  <1>2. /\ request' = request /\ i' = i /\ iterations' = iterations /\ noise' = noise
        /\ latents' = latents /\ timesteps' = timesteps /\ guidance' = guidance
        /\ pc' = "iterate" /\ nodes' = [ k \in 1..Len(nodes) |-> SetInputs(nodes[k]) ]
    BY DEF Rewire
  <1>3. /\ \E T : nodes' \in Seq(T)
        /\ Len(nodes') = Len(nodes)
        /\ \A k \in Calls : nodes'[k] = SetInputs(nodes[k])
    <2>1. \A k \in 1..Len(nodes) : SetInputs(nodes[k]) \in { SetInputs(nodes[m]) : m \in 1..Len(nodes) }
      OBVIOUS
    <2>2. nodes' \in Seq({ SetInputs(nodes[m]) : m \in 1..Len(nodes) })
      BY <1>1, <1>2, <2>1, IsASeq
    <2>3. DOMAIN nodes' = 1..Len(nodes') /\ Len(nodes') \in Nat
      BY <2>2, LenProperties
    <2>4. DOMAIN nodes' = 1..Len(nodes)
      BY <1>2
    <2>5. Len(nodes') = Len(nodes)
      BY <1>1, <2>3, <2>4
    <2> QED
      BY <1>2, <2>2, <2>5 DEF Calls
  <1>4. ASSUME NEW k \in Calls
        PROVE  /\ DOMAIN nodes'[k] = {"op", "mode", "patches", "args"}
               /\ nodes'[k].op = nodes[k].op /\ nodes'[k].mode = nodes[k].mode
               /\ ArgsOf(k)' = ArgsOf(k)
               /\ \A a \in ArgsOf(k) :
                    Arg(k, a)' = IF Arg(k, a) = Denoised THEN latents ELSE Arg(k, a)
    <2>1. DOMAIN nodes[k] = {"op", "mode", "patches", "args"}
      BY <1>1, <1>4 DEF GraphInv
    <2>2. nodes'[k] = SetInputs(nodes[k])
      BY <1>3, <1>4
    <2>3. /\ DOMAIN nodes'[k] = DOMAIN nodes[k]
          /\ nodes'[k].op = nodes[k].op /\ nodes'[k].mode = nodes[k].mode
          /\ nodes'[k].args = [ a \in DOMAIN nodes[k].args |->
                IF nodes[k].args[a] = Denoised THEN latents ELSE nodes[k].args[a] ]
      BY <2>1, <2>2 DEF SetInputs
    <2>4. ArgsOf(k)' = ArgsOf(k)
      BY <2>3 DEF ArgsOf
    <2>5. \A a \in ArgsOf(k) :
            Arg(k, a)' = IF Arg(k, a) = Denoised THEN latents ELSE Arg(k, a)
      BY <2>3 DEF ArgsOf, Arg
    <2> QED
      BY <2>1, <2>3, <2>4, <2>5
  <1>5. ASSUME NEW k \in Loop, NEW a \in ArgsOf(k)
        PROVE  Arg(k, a) # Denoised
    <2>1. Denoised.src = -1
      BY DEF Denoised
    <2>2. k \in 1..Len(nodes) /\ Arg(k, a).src \in 0..(k - 1)
      BY <1>1, <1>5 DEF GraphInv, CallInv, Mentions, Loop, Calls
    <2> QED
      BY <1>1, <2>1, <2>2
  <1>6. Kept
    <2>1. \A k \in Loop : k \in Calls
      BY DEF Loop
    <2>2. \A k \in Loop : \A a \in ArgsOf(k) : Arg(k, a)' = Arg(k, a)
      BY <1>4, <1>5, <2>1
    <2>3. Len(nodes') = Len(nodes)
      BY <1>3
    <2> QED
      BY <1>1, <1>2, <1>4, <2>2, <2>3 DEF Kept
  <1>7. /\ Loop' = Loop /\ Calls' = Calls /\ \A k \in Loop : CallInv(k)'
        /\ IndexInv' /\ \A s \in Calls : Foremost(s) => Foremost(s)'
    BY <1>1, <1>2, <1>3, <1>6, SameCalls
  <1>8. ASSUME NEW k \in Calls, k \notin Loop
        PROVE  BaseInv(k)'
    <2>1. BaseInv(k) /\ latents.out \notin LazyPorts
      BY <1>1, <1>8 DEF GraphInv, Value
    <2>2. (nodes[k].op \notin SchedulerOps
             /\ nodes[k].mode # "step_classifier_free_guidance")'
      BY <1>4, <2>1 DEF BaseInv
    <2>3. (\A a \in ArgsOf(k) : ~IsLazy(Arg(k, a)))'
      BY <1>4, <2>1 DEF BaseInv, IsLazy
    <2> QED
      BY <2>2, <2>3 DEF BaseInv
  <1>9. GraphInv'
    <2>1. Base' = Base /\ Base \in Nat /\ Base <= Len(nodes)
      BY <1>1, <1>2 DEF Base, GraphInv
    <2> QED
      BY <1>3, <1>4, <1>7, <1>8, <2>1 DEF GraphInv
  <1>10. RunInv'
    <2>1. NodeShape'
      BY <1>1, <1>2, KeptShape
    <2>2. Started'
      <3>1. Base' = Base
        BY <1>2 DEF Base
      <3> QED
        BY <1>1, <1>2, <1>7, <3>1 DEF Started, Value
    <2>3. (\A s \in Calls : s = latents.src => Foremost(s))'
      BY <1>1, <1>2, <1>7, LatentsStay DEF RunInv
    <2> QED
      BY <1>2, <2>1, <2>2, <2>3 DEF RunInv, InRound
  <1>11. (guidance = Absent \/ Value(guidance))'
    BY <1>2, <1>6, KeptValue DEF UnrollInv, Value
  <1> QED
    BY <1>2, <1>9, <1>7, <1>10, <1>11 DEF UnrollInv

\* The graph is returned as it is.
LEMMA StepReturn ==
    ASSUME UnrollInv, Return
    PROVE  UnrollInv'
  <1>1. /\ request' = request /\ i' = i /\ iterations' = iterations /\ noise' = noise
        /\ nodes' = nodes /\ guidance' = guidance /\ pc' = "done"
    BY DEF Return
  <1>2. Kept /\ GraphInv' /\ IndexInv'
    BY <1>1, SameGraph DEF UnrollInv
  <1>3. (guidance = Absent \/ Value(guidance))'
    BY <1>1, <1>2, KeptValue DEF UnrollInv, Value
  <1> QED
    BY <1>1, <1>2, <1>3 DEF UnrollInv, Running

\* A step that leaves unrolling alone.
LEMMA UnrollSame ==
    ASSUME UnrollInv, UNCHANGED unrollVars
    PROVE  UnrollInv' /\ Calls' = Calls
  <1>1. /\ request' = request /\ nodes' = nodes /\ i' = i
        /\ UNCHANGED <<pc, branch, inputs, iterations, latents, original, timesteps, timestep,
                       guidance, samples, noise>>
    BY DEF unrollVars
  <1>2. /\ Kept /\ Loop' = Loop /\ Calls' = Calls /\ GraphInv' /\ IndexInv'
        /\ \A s \in Calls : Foremost(s) => Foremost(s)'
    BY <1>1, SameGraph DEF UnrollInv
  <1>3. \A s, j : Reaches(s, j)' <=> Reaches(s, j)
    BY <1>1, <1>2 DEF Reaches, Closed, Sources, ArgsOf, Arg
  <1>4. /\ denoise' = denoise /\ base' = base /\ Cond' = Cond /\ Base' = Base
        /\ (guided' <=> guided)
    BY <1>1 DEF denoise, base, Cond, Base, guided
  <1>5. /\ \A k : ArgsOf(k)' = ArgsOf(k) /\ HasTimestep(k)' = HasTimestep(k)
        /\ \A k, a : Arg(k, a)' = Arg(k, a)
    BY <1>1 DEF ArgsOf, Arg, HasTimestep
  <1>6. (Started' <=> Started) /\ (Round' <=> Round)
    BY <1>1, <1>2, <1>4, <1>5 DEF Started, Round, Value, IsTimestep
  <1>7. \A b : Embeddings(b)' = Embeddings(b)
    BY <1>4 DEF Embeddings
  <1>8. \A c, b : Predicts(c, b)' <=> Predicts(c, b)
    BY <1>1, <1>3, <1>4, <1>5, <1>7 DEF Predicts
  <1>9. Predictions' <=> Predictions
    BY <1>1, <1>2, <1>4, <1>8 DEF Predictions
  <1>10. \A c : SampledFrom(c)' <=> SampledFrom(c)
    <2>1. CommonArgs' = CommonArgs
      BY <1>1, SameCommonArgs
    <2> QED
      BY <1>1, <1>3, <1>4, <1>5, <2>1 DEF SampledFrom
  <1>11. NodeShape' <=> NodeShape
    BY <1>4 DEF NodeShape, Known
  <1>12. RunInv => RunInv'
    <2>1. (\A s \in Calls : s = latents.src => Foremost(s))
            => (\A s \in Calls : s = latents.src => Foremost(s))'
      BY <1>1, <1>2
    <2> QED
      BY <1>1, <1>2, <1>4, <1>6, <1>9, <1>10, <1>11, <2>1 DEF RunInv, InRound
  <1>13. (guidance = Absent \/ Value(guidance))'
    BY <1>1, <1>2 DEF UnrollInv, Value
  <1> QED
    BY <1>1, <1>2, <1>4, <1>12, <1>13 DEF UnrollInv, Running

\* From the start.
LEMMA InitInv ==
    ASSUME Init
    PROVE  IInv
  <1>1. /\ request \in Requests /\ pc = "start" /\ nodes = request.workflow.nodes
        /\ i = 0 /\ iterations = 0 /\ guidance = Absent /\ noise = NoNoise
        /\ computed = {} /\ sched = [set |-> FALSE, index |-> NoIndex, begin |-> NoIndex]
    BY DEF Init, UnrollInit
  <1>2. /\ Base \in Nat /\ request.steps \in Nat /\ \E T : nodes \in Seq(T)
        /\ Len(nodes) = Base
        /\ \A k \in 1..Base : /\ nodes[k].op \notin SchedulerOps
                              /\ nodes[k].mode # "step_classifier_free_guidance"
                              /\ DOMAIN nodes[k] = {"op", "mode", "patches", "args"}
                              /\ \A a \in DOMAIN nodes[k].args : ~IsLazy(nodes[k].args[a])
    BY <1>1, WorkflowShape DEF Base
  <1>3. Calls = 1..Base /\ Loop = {}
    BY <1>2 DEF Calls, Loop
  <1>4. GraphInv
    BY <1>2, <1>3 DEF GraphInv, BaseInv, ArgsOf, Arg
  <1>5. IndexInv
    BY <1>1, <1>3 DEF IndexInv, Latest, Timed
  <1>6. DOMAIN noise = Branches
    BY <1>1 DEF NoNoise
  <1>7. UnrollInv
    BY <1>1, <1>2, <1>4, <1>5, <1>6 DEF UnrollInv, Running
  <1> QED
    BY <1>1, <1>7 DEF IInv, ExecutionInv

\* Nothing is computed before the workflow is unrolled.
LEMMA StepUnrolling ==
    ASSUME IInv, Unrolling
    PROVE  IInv'
  <1>1. UnrollInv /\ UnrollNext /\ UNCHANGED <<computed, sched>>
    BY DEF IInv, Unrolling
  <1>2. UnrollInv'
    BY <1>1, StepBegin, StepInitScheduler, StepInitImageToImage, StepInitNoiseSigma,
       StepMakeGuidance, StepTakeTimestep, StepScaleModelInput, StepRunAdapters,
       StepRunModel, StepGuided, StepPlain, StepRewire, StepReturn DEF UnrollNext
  <1>3. pc # "done"
    BY <1>1 DEF UnrollNext, Begin, InitScheduler, InitImageToImage, InitNoiseSigma,
                MakeGuidance, TakeTimestep, ScaleModelInput, RunAdapters, RunModel,
                GuidedStep, PlainStep, Rewire, Return
  <1>4. computed' = {} /\ sched' = [set |-> FALSE, index |-> NoIndex, begin |-> NoIndex]
    BY <1>1, <1>3 DEF IInv, ExecutionInv
  <1>5. OrderInv'
    <2>1. NoIndex \in Int
      BY DEF NoIndex
    <2> QED
      BY <1>4, <2>1 DEF OrderInv
  <1> QED
    BY <1>2, <1>4, <1>5 DEF IInv, ExecutionInv

-----------------------------------------------------------------------------
(* The execution of the calls *)

\* The calls that have run are closed under the sources of calls, and stay so
\* with one whose sources have run.
LEMMA ClosedComputed ==
    ASSUME OrderInv, NEW k \in Calls, Sources(k) \subseteq computed
    PROVE  /\ computed \in SUBSET Calls /\ Closed(computed)
           /\ computed \cup {k} \in SUBSET Calls /\ Closed(computed \cup {k})
  BY DEF OrderInv, Closed

\* A call with a timestep runs after the scheduler is initialised.
LEMMA InitialisedFirst ==
    ASSUME UnrollInv, OrderInv, NEW k \in Loop, HasTimestep(k), Sources(k) \subseteq computed
    PROVE  /\ Base + 1 \in computed
           /\ IterationOf(k) \in Nat
  <1>1. CallInv(k) /\ Base \in Nat
    BY SettledValues DEF UnrollInv, GraphInv, Loop
  <1>2. PICK t : t = Arg(k, "timestep").src
    OBVIOUS
  <1>3. IsTimestep(t)
    BY <1>1, <1>2 DEF CallInv
  <1>4. t \in computed
    BY <1>2, <1>3 DEF HasTimestep, Sources, IsTimestep, Loop, Calls
  <1>5. Base + 1 \in Sources(t)
    BY <1>1, <1>3 DEF IsTimestep, Sources
  <1>6. IterationOf(k) \in Nat
    BY <1>2, <1>3 DEF IterationOf, IsTimestep
  <1> QED
    BY <1>4, <1>5, <1>6 DEF OrderInv

\* The calls of the scheduler that have run are those of the earlier iterations, and
\* of the earlier part of this one.
LEMMA EarlierComputed ==
    ASSUME UnrollInv, OrderInv, NEW k \in Calls, k \notin computed,
           Sources(k) \subseteq computed, Timed(k)
    PROVE  \A m \in Loop : Timed(m) => (m \in computed <=> m < k)
  <1>1. k \in Loop /\ k \in Nat /\ GraphInv
    BY DEF Timed, Calls, UnrollInv
  <1>2. ASSUME NEW m \in Loop, Timed(m), m < k
        PROVE  m \in computed
    <2>1. Reaches(k, m)
      BY <1>1, <1>2 DEF GraphInv, CallInv, Chained
    <2>2. m \in computed \cup {k}
      BY <2>1, ClosedComputed DEF Reaches
    <2> QED
      BY <1>1, <1>2, <2>2
  <1>3. ASSUME NEW m \in Loop, Timed(m), m \in computed, ~(m < k)
        PROVE  FALSE
    <2>1. m \in Calls /\ m \in Nat /\ CallInv(m)
      BY <1>1 DEF Loop, Calls, GraphInv
    <2>2. k < m
      BY <1>1, <1>3, <2>1
    <2>3. Reaches(m, k)
      BY <1>1, <1>3, <2>1, <2>2 DEF CallInv, Chained
    <2> QED
      BY <1>3, <2>3, ClosedComputed DEF Reaches
  <1> QED
    BY <1>2, <1>3

\* If there are calls of the scheduler before k there is a latest one.
LEMMA LatestExists ==
    ASSUME GraphInv, NEW k \in Calls, NEW m \in Loop, Timed(m), m < k
    PROVE  \E j \in Loop : Latest(j, k)
  <1> DEFINE S == { d \in Nat : \E j \in Loop : Timed(j) /\ j < k /\ d = k - j }
  <1>1. k \in Nat /\ \A j \in Loop : j \in Nat
    BY DEF Calls, Loop
  <1>2. k - m \in S
    BY <1>1
  <1>3. PICK d \in S : \A e \in S : d <= e
    BY <1>2, LeastNatural
  <1>4. PICK j \in Loop : Timed(j) /\ j < k /\ d = k - j
    OBVIOUS
  <1>5. ASSUME NEW x \in Loop, Timed(x), x < k
        PROVE  x <= j
    <2>1. k - x \in S
      BY <1>1, <1>5
    <2> QED
      BY <1>1, <1>3, <1>4, <2>1
  <1> QED
    BY <1>4, <1>5 DEF Latest

\* A call of the scheduler finds the step index of its iteration.
LEMMA IndexFound ==
    ASSUME UnrollInv, OrderInv, NEW k \in Calls, k \notin computed,
           Sources(k) \subseteq computed, Timed(k)
    PROVE  Effective(k) = Position(k) /\ Effective(k) \in Nat /\ IterationOf(k) \in Nat
  <1>1. /\ k \in Loop /\ HasTimestep(k) /\ Chained(k) /\ GraphInv /\ k \in Nat
        /\ IterationOf(k) \in Nat
    <2>1. k \in Loop /\ HasTimestep(k) /\ k \in Nat /\ GraphInv
      BY DEF Timed, Calls, UnrollInv
    <2> QED
      BY <2>1, InitialisedFirst DEF GraphInv, CallInv
  <1>2. Skipped \in Nat
    <2>1. request.steps \in Nat
      BY WorkflowShape DEF UnrollInv
    <2> QED
      BY <2>1 DEF UnrollInv, Skipped
  <1>3. Position(k) \in Nat /\ Position(k) = Skipped + IterationOf(k)
    BY <1>1, <1>2 DEF Position
  <1>4. CASE \E m \in Loop : Timed(m) /\ m < k
    <2>1. PICK j \in Loop : Latest(j, k)
      BY <1>1, <1>4, LatestExists
    <2>2. /\ Timed(j) /\ j \in computed
          /\ \A m \in computed : Timed(m) => m <= j
      BY <2>1, EarlierComputed DEF Latest, Timed
    <2>3. sched.index = Skipped + NextIndex(j)
      BY <2>2 DEF OrderInv
    <2>4. IterationOf(k) = NextIndex(j)
      BY <1>1, <2>1 DEF Chained
    <2>5. sched.index = Position(k) /\ sched.index # NoIndex
      BY <1>3, <2>3, <2>4 DEF NoIndex
    <2> QED
      BY <1>1, <1>3, <2>5 DEF Effective
  <1>5. CASE \A m \in Loop : Timed(m) => ~(m < k)
    <2>1. \A m \in computed : ~Timed(m)
      BY <1>5, EarlierComputed DEF Timed
    <2>2. sched.index = NoIndex /\ sched.begin \in {NoIndex, Skipped}
      BY <2>1 DEF OrderInv
    <2>3. \A m \in Loop : Timed(m) => k <= m
      BY <1>1, <1>5 DEF Loop, Calls
    <2>4. IterationOf(k) = 0
      BY <1>1, <2>3 DEF Chained
    <2>5. Position(k) = Skipped
      BY <1>2, <1>3, <2>4
    <2>6. Skipped # NoIndex
      BY <1>2 DEF NoIndex
    <2> QED
      BY <1>1, <1>3, <2>2, <2>5, <2>6 DEF Effective
  <1> QED
    BY <1>4, <1>5

\* What a call of the scheduler leaves behind is what the next one needs.
LEMMA OrderKept ==
    ASSUME UnrollInv, OrderInv, NEW k \in Calls, k \notin computed,
           Sources(k) \subseteq computed, Calls' = Calls,
           \A m \in Calls : /\ Sources(m)' = Sources(m) /\ (Timed(m)' <=> Timed(m))
                            /\ NextIndex(m)' = NextIndex(m),
           Base' = Base, Skipped' = Skipped, computed' = computed \cup {k},
           sched' \in [set : BOOLEAN, index : Int, begin : Int],
           sched.set => sched'.set, k = Base + 1 => sched'.set,
           Timed(k) => sched'.index = Skipped + NextIndex(k),
           (~Timed(k) /\ sched' # sched) =>
             /\ k = Base + 1
             /\ sched'.index = NoIndex /\ sched'.begin \in {NoIndex, Skipped}
    PROVE  OrderInv'
  <1>1. /\ computed' \subseteq Calls' /\ \A m \in computed' : Sources(m)' \subseteq computed'
        /\ (Base + 1 \in computed => sched.set)'
    BY DEF OrderInv
  <1>2. ASSUME Timed(k)
        PROVE  \A m \in computed : Timed(m) => m < k
    BY <1>2, EarlierComputed DEF Timed
  <1>3. ASSUME k = Base + 1
        PROVE  \A m \in computed : ~Timed(m)
    <2>1. \A m \in computed : Timed(m) => Base + 1 \in computed
      BY InitialisedFirst DEF OrderInv, Timed
    <2> QED
      BY <1>3, <2>1
  <1>4. ASSUME \A j \in computed' : ~Timed(j)'
        PROVE  sched'.index = NoIndex /\ sched'.begin \in {NoIndex, Skipped}
    <2>1. ~Timed(k) /\ \A j \in computed : ~Timed(j)
      BY <1>4 DEF OrderInv
    <2>2. sched.index = NoIndex /\ sched.begin \in {NoIndex, Skipped}
      BY <2>1 DEF OrderInv
    <2> QED
      BY <2>1, <2>2
  <1>5. ASSUME NEW j \in computed', Timed(j)', \A m \in computed' : Timed(m)' => m <= j
        PROVE  sched'.index = Skipped + NextIndex(j)
    <2>1. /\ j \in Calls /\ Timed(j) /\ k \in Nat
          /\ \A m \in computed : Timed(m) => m <= j
          /\ Timed(k) => k <= j
      BY <1>5 DEF OrderInv, Calls
    <2>2. CASE Timed(k)
      <3>1. j = k
        BY <1>2, <2>1, <2>2
      <3> QED
        BY <2>2, <3>1
    <2>3. CASE ~Timed(k)
      <3>1. j \in computed
        BY <2>1, <2>3
      <3>2. sched' = sched
        BY <1>3, <2>1, <2>3, <3>1
      <3> QED
        BY <2>1, <3>1, <3>2 DEF OrderInv
    <2> QED
      BY <2>2, <2>3
  <1>6. ((\A j \in computed : ~Timed(j)) =>
           sched.index = NoIndex /\ sched.begin \in {NoIndex, Skipped})'
    BY <1>4
  <1>7. (\A j \in computed : (Timed(j) /\ \A m \in computed : Timed(m) => m <= j) =>
           sched.index = Skipped + NextIndex(j))'
    BY <1>1, <1>5
  <1> QED
    BY <1>1, <1>6, <1>7 DEF OrderInv

\* A call that is not the scheduler's leaves it as it is.
LEMMA AfterCall ==
    ASSUME UnrollInv, OrderInv, NEW k \in Calls, k \notin computed,
           Sources(k) \subseteq computed,
           NEW s, s = IF IsScheduler(k) THEN SchedulerAfter(k) ELSE sched
    PROVE  /\ s \in [set : BOOLEAN, index : Int, begin : Int]
           /\ sched.set => s.set
           /\ k = Base + 1 => s.set
           /\ Timed(k) => s.index = Skipped + NextIndex(k)
           /\ (~Timed(k) /\ s # sched) =>
                k = Base + 1 /\ s.index = NoIndex /\ s.begin \in {NoIndex, Skipped}
           /\ (IsScheduler(k) /\ ~SetsTimesteps(k)) =>
                sched.set /\ (HasTimestep(k) => Effective(k) = Position(k))
  <1>1. /\ GraphInv /\ sched \in [set : BOOLEAN, index : Int, begin : Int]
        /\ Base \in Nat /\ k \in Nat /\ NoIndex \in Int
    BY SettledValues DEF UnrollInv, OrderInv, Calls, NoIndex
  <1>2. Skipped \in Nat
    <2>1. request.steps \in Nat
      BY WorkflowShape DEF UnrollInv
    <2> QED
      BY <2>1 DEF UnrollInv, Skipped
  <1>3. Skipped \in Int
    BY <1>2
  <1>4. \A x, y \in Int :
          [set |-> TRUE, index |-> x, begin |-> y] \in [set : BOOLEAN, index : Int, begin : Int]
    OBVIOUS
  <1>5. CASE k \notin Loop
    <2>1. ~IsScheduler(k) /\ ~Timed(k)
      BY <1>1, <1>5 DEF GraphInv, BaseInv, IsScheduler, Timed
    <2>2. k # Base + 1
      BY <1>1, <1>5 DEF Loop
    <2> QED
      BY <1>1, <2>1, <2>2
  <1>6. CASE k \in Loop /\ ~IsScheduler(k)
    <2>1. SchedulerCall(k) /\ ~Timed(k)
      BY <1>1, <1>6 DEF GraphInv, CallInv, Timed
    <2>2. k # Base + 1
      BY <1>6, <2>1 DEF SchedulerCall
    <2> QED
      BY <1>1, <1>6, <2>1, <2>2
  <1>7. CASE k = Base + 1 /\ k \in Loop
    <2>1. SchedulerCall(k)
      BY <1>1, <1>7 DEF GraphInv, CallInv
    <2>2. IsScheduler(k) /\ SetsTimesteps(k) /\ ~Timed(k)
      BY <1>7, <2>1 DEF SchedulerCall, Timed
    <2>3. s = SchedulerAfter(k)
      BY <2>2
    <2>4. /\ s \in [set : BOOLEAN, index : Int, begin : Int]
          /\ s.set /\ s.index = NoIndex /\ s.begin \in {NoIndex, Skipped}
      <3>1. CASE nodes[k].mode = "init"
        <4>1. s = [set |-> TRUE, index |-> NoIndex, begin |-> NoIndex]
          BY <2>3, <3>1 DEF SchedulerAfter, IsStep
        <4>2. s.set = TRUE /\ s.index = NoIndex /\ s.begin = NoIndex
          BY <4>1
        <4>3. s \in [set : BOOLEAN, index : Int, begin : Int]
          BY <1>1, <4>1, <1>4
        <4> QED
          BY <4>2, <4>3, Zenon
      <3>2. CASE nodes[k].mode = "img2img_get_timesteps"
        <4>1. s = [set |-> TRUE, index |-> NoIndex, begin |-> Skipped]
          BY <2>3, <3>2 DEF SchedulerAfter, IsStep
        <4>2. s.set = TRUE /\ s.index = NoIndex /\ s.begin = Skipped
          BY <4>1
        <4>3. s \in [set : BOOLEAN, index : Int, begin : Int]
          BY <1>1, <1>3, <4>1, <1>4
        <4> QED
          BY <4>2, <4>3, Zenon
      <3> QED
        BY <2>2, <3>1, <3>2 DEF SetsTimesteps
    <2> QED
      BY <1>7, <2>2, <2>4
  <1>8. CASE k # Base + 1 /\ k \in Loop /\ IsScheduler(k) /\ ~HasTimestep(k)
    <2>1. nodes[k].mode = "init_noise_sigma" /\ Base + 1 \in Sources(k) /\ ~Timed(k)
      BY <1>1, <1>8 DEF GraphInv, CallInv, SchedulerCall, Timed
    <2>2. s = sched
      BY <1>8, <2>1 DEF SchedulerAfter, IsStep
    <2>3. sched.set
      BY <2>1 DEF OrderInv
    <2> QED
      BY <1>1, <1>8, <2>1, <2>2, <2>3
  <1>9. CASE k # Base + 1 /\ k \in Loop /\ IsScheduler(k) /\ HasTimestep(k)
    <2>1. /\ Timed(k)
          /\ nodes[k].mode \in {"scale_model_input", "step", "step_classifier_free_guidance"}
      BY <1>1, <1>9 DEF GraphInv, CallInv, SchedulerCall, Timed
    <2>2. /\ Effective(k) = Skipped + IterationOf(k) /\ Effective(k) = Position(k)
          /\ Effective(k) \in Nat /\ IterationOf(k) \in Nat
      BY <2>1, IndexFound DEF Position
    <2>3. sched.set
      BY <1>9, InitialisedFirst DEF OrderInv
    <2>4. CASE nodes[k].mode = "scale_model_input"
      <3>1. s = [sched EXCEPT !.index = Effective(k)]
        BY <1>9, <2>4 DEF SchedulerAfter, IsStep
      <3>2. ~IsStep(k) /\ NextIndex(k) = IterationOf(k)
        BY <2>4 DEF IsStep, NextIndex
      <3>3. /\ s \in [set : BOOLEAN, index : Int, begin : Int]
            /\ s.set = sched.set /\ s.index = Effective(k)
        BY <1>1, <2>2, <3>1
      <3> QED
        BY <1>9, <2>1, <2>2, <2>3, <3>2, <3>3
    <2>5. CASE nodes[k].mode \in {"step", "step_classifier_free_guidance"}
      <3>1. s = [sched EXCEPT !.index = Effective(k) + 1]
        BY <1>9, <2>5 DEF SchedulerAfter, IsStep
      <3>2. IsStep(k) /\ NextIndex(k) = IterationOf(k) + 1
        BY <2>5 DEF IsStep, NextIndex
      <3>3. /\ s \in [set : BOOLEAN, index : Int, begin : Int]
            /\ s.set = sched.set /\ s.index = Effective(k) + 1
        BY <1>1, <2>2, <3>1
      <3>4. s.index = Skipped + NextIndex(k)
        BY <1>2, <2>2, <3>2, <3>3
      <3> QED
        BY <1>9, <2>1, <2>2, <2>3, <3>3, <3>4
    <2>6. \/ nodes[k].mode = "scale_model_input"
          \/ nodes[k].mode \in {"step", "step_classifier_free_guidance"}
      BY <2>1
    <2> QED
      BY <2>4, <2>5, <2>6, Zenon
  <1> QED
    BY <1>5, <1>6, <1>7, <1>8, <1>9

\* While calls run the graph is what it was.
LEMMA GraphStays ==
    ASSUME UnrollInv, UNCHANGED unrollVars
    PROVE  /\ UnrollInv' /\ Calls' = Calls /\ Base' = Base /\ Skipped' = Skipped /\ pc' = pc
           /\ \A m \in Calls : /\ Sources(m)' = Sources(m) /\ (Timed(m)' <=> Timed(m))
                              /\ NextIndex(m)' = NextIndex(m)
  <1>1. UnrollInv' /\ Calls' = Calls
    BY UnrollSame
  <1>2. request' = request /\ nodes' = nodes /\ iterations' = iterations /\ pc' = pc
    BY DEF unrollVars
  <1>3. Base' = Base /\ Loop' = Loop /\ Skipped' = Skipped
    BY <1>1, <1>2 DEF Base, Loop, Skipped
  <1>4. \A m : Sources(m)' = Sources(m)
    BY <1>2 DEF Sources, ArgsOf, Arg
  <1>5. \A m : IsScheduler(m)' = IsScheduler(m) /\ IsStep(m)' = IsStep(m)
                 /\ HasTimestep(m)' = HasTimestep(m) /\ IterationOf(m)' = IterationOf(m)
    BY <1>2 DEF IsScheduler, IsStep, HasTimestep, IterationOf, ArgsOf, Arg
  <1>6. \A m \in Calls : (Timed(m)' <=> Timed(m)) /\ NextIndex(m)' = NextIndex(m)
    BY <1>3, <1>5 DEF Timed, NextIndex
  <1> QED
    BY <1>1, <1>2, <1>3, <1>4, <1>6

\* A call runs.
LEMMA StepCompute ==
    ASSUME IInv, NEW k \in Calls, Compute(k)
    PROVE  IInv'
  <1>1. /\ UnrollInv /\ OrderInv /\ pc = "done" /\ k \notin computed
        /\ Sources(k) \subseteq computed /\ UNCHANGED unrollVars
        /\ computed' = computed \cup {k}
        /\ sched' = IF IsScheduler(k) THEN SchedulerAfter(k) ELSE sched
    BY DEF IInv, ExecutionInv, Compute, Computable
  <1>2. OrderInv'
    <2>1. PICK s : s = sched'
      OBVIOUS
    <2>2. /\ s \in [set : BOOLEAN, index : Int, begin : Int]
          /\ sched.set => s.set
          /\ k = Base + 1 => s.set
          /\ Timed(k) => s.index = Skipped + NextIndex(k)
          /\ (~Timed(k) /\ s # sched) =>
               k = Base + 1 /\ s.index = NoIndex /\ s.begin \in {NoIndex, Skipped}
      BY <1>1, <2>1, AfterCall
    <2> QED
      BY <1>1, <2>1, <2>2, GraphStays, OrderKept
  <1> QED
    BY <1>1, <1>2, GraphStays DEF IInv, ExecutionInv

\* Nothing happens.
LEMMA StepStutter ==
    ASSUME IInv, UNCHANGED vars
    PROVE  IInv'
  <1>1. /\ UnrollInv /\ UNCHANGED unrollVars /\ computed' = computed /\ sched' = sched
    BY DEF IInv, vars
  <1>2. OrderInv => OrderInv'
    <2>1. computed \subseteq Calls => computed' \subseteq Calls'
      BY <1>1, GraphStays
    <2> QED
      BY <1>1, <2>1, GraphStays DEF OrderInv
  <1> QED
    BY <1>1, <1>2, GraphStays DEF IInv, ExecutionInv

\* The invariant of the specification.
THEOREM UnrolledInOrder == Spec => []IInv
  <1>1. Init => IInv
    BY InitInv
  <1>2. IInv /\ [Next]_vars => IInv'
    <2>1. SUFFICES ASSUME IInv, [Next]_vars
                   PROVE  IInv'
      OBVIOUS
    <2>2. CASE Unrolling
      BY <2>1, <2>2, StepUnrolling
    <2>3. CASE \E k \in 1..Len(nodes) : Compute(k)
      <3>1. PICK k \in Calls : Compute(k)
        BY <2>3 DEF Calls
      <3> QED
        BY <2>1, <3>1, StepCompute
    <2>4. CASE UNCHANGED vars
      BY <2>1, <2>4, StepStutter
    <2> QED
      BY <2>1, <2>2, <2>3, <2>4 DEF Next
  <1> QED
    BY <1>1, <1>2, PTL DEF Spec

-----------------------------------------------------------------------------
(* What it says of the calls *)

\* The data that passes between the calls orders those of the scheduler (step,
\* scale_model_input, init_noise_sigma in the diffusers schedulers): whatever the
\* order of execution, each comes after its timesteps are set and works with the
\* step index of its iteration.
THEOREM StepIndexFound == Spec => CallsFindTheirStepIndex
  <1> DEFINE A == \A k \in computed' \ computed :
                    (IsScheduler(k) /\ ~SetsTimesteps(k)) =>
                      /\ sched.set
                      /\ HasTimestep(k) => Effective(k) = Position(k)
  <1>1. IInv /\ [Next]_vars => [A]_vars
    <2>1. SUFFICES ASSUME IInv, Next, NEW k \in computed' \ computed,
                          IsScheduler(k), ~SetsTimesteps(k)
                   PROVE  sched.set /\ (HasTimestep(k) => Effective(k) = Position(k))
      OBVIOUS
    <2>2. ~Unrolling
      BY <2>1 DEF Unrolling
    <2>3. PICK c \in Calls : Compute(c)
      BY <2>1, <2>2 DEF Next, Calls
    <2>4. /\ UnrollInv /\ OrderInv /\ c \notin computed /\ Sources(c) \subseteq computed
          /\ computed' = computed \cup {c}
      BY <2>1, <2>3 DEF IInv, ExecutionInv, Compute, Computable
    <2>5. k = c
      BY <2>1, <2>4
    <2>6. PICK s : s = IF IsScheduler(c) THEN SchedulerAfter(c) ELSE sched
      OBVIOUS
    <2> QED
      BY <2>1, <2>4, <2>5, <2>6, AfterCall
  <1>2. [][A]_vars => CallsFindTheirStepIndex
    BY DEF CallsFindTheirStepIndex
  <1> QED
    BY <1>1, <1>2, UnrolledInOrder, PTL DEF Spec

\* A lazy argument of a call, and the call of its branch it comes from.
LEMMA LazyArgument ==
    ASSUME IInv, NEW k \in Calls, NEW a \in ArgsOf(k), IsLazy(Arg(k, a))
    PROVE  k \in Loop /\ Overtakes(k, Arg(k, a).src)
  <1>1. GraphInv
    BY DEF IInv, UnrollInv
  <1>2. k \in Loop
    BY <1>1 DEF GraphInv, BaseInv
  <1> QED
    BY <1>1, <1>2 DEF GraphInv, CallInv

\* The residuals a model takes are of a call for the same prompt, latents and
\* timestep, although run_adapters and prepare_model_kwargs hand them on by
\* variables that the next branch and the next iteration overwrite.
THEOREM SamplesMatch == Spec => []SamplesMatchTheirCall
  <1>1. IInv => SamplesMatchTheirCall
    BY LazyArgument DEF SamplesMatchTheirCall, Calls, Overtakes, Shared
  <1> QED
    BY <1>1, UnrolledInOrder, PTL

\* A step with guidance combines a prediction for the negative and one for the
\* positive prompt, made for the same latents and for the timestep it takes.
THEOREM BranchesCombine == Spec => []GuidedStepCombinesItsBranches
  <1>1. IInv => GuidedStepCombinesItsBranches
    <2>1. SUFFICES ASSUME IInv, NEW k \in Calls,
                          nodes[k].mode = "step_classifier_free_guidance"
                   PROVE  LET uncond == Arg(k, "noise_pred_uncond").src
                              text == Arg(k, "noise_pred_text").src
                          IN  /\ uncond # text
                              /\ Arg(uncond, "latents") = Arg(text, "latents")
                              /\ { Arg(c, "timestep") : c \in {uncond, text} }
                                   = {Arg(k, "timestep")}
                              /\ Arg(uncond, "prompt_embeds") = base.negative_prompt_embeds
                              /\ Arg(text, "prompt_embeds") = base.prompt_embeds
      BY DEF GuidedStepCombinesItsBranches, Calls
    <2>2. k \in Loop /\ CallInv(k)
      BY <2>1 DEF IInv, UnrollInv, GraphInv, BaseInv
    <2>3. Branched(k, Arg(k, "noise_pred_uncond").src, Arg(k, "noise_pred_text").src)
      BY <2>1, <2>2 DEF CallInv
    <2> QED
      BY <2>3 DEF Branched
  <1> QED
    BY <1>1, UnrolledInOrder, PTL

\* From the second iteration on the latents depend on the control image, and so
\* does a model call: when its eager arguments are there, so are those of the
\* ControlNet call whose lazy residuals it takes.
THEOREM OvertakesOnce == Spec => []OnlyFirstIterationOvertakes
  <1>1. IInv => OnlyFirstIterationOvertakes
    <2>1. SUFFICES ASSUME IInv, pc = "done", NEW k \in Calls, NEW a \in ArgsOf(k),
                          IsLazy(Arg(k, a)), IterationOf(k) > 0,
                          EagerSources(k) \subseteq computed
                   PROVE  EagerSources(Arg(k, a).src) \subseteq computed
      BY DEF OnlyFirstIterationOvertakes, Calls
    <2>2. PICK c : c = Arg(k, a).src
      OBVIOUS
    <2>3. Overtakes(k, c) /\ OrderInv
      BY <2>1, <2>2, LazyArgument DEF IInv, ExecutionInv
    <2>4. Cond \in computed
      <3>1. PICK s \in EagerSources(k) : Reaches(s, Cond)
        BY <2>1, <2>3 DEF Overtakes
      <3>2. computed \in SUBSET Calls /\ Closed(computed)
        BY <2>3 DEF OrderInv, Closed
      <3> QED
        BY <2>1, <3>1, <3>2 DEF Reaches
    <2>5. \A b \in ArgsOf(c) : Arg(c, b).src \in {0} \cup computed
      BY <2>1, <2>3, <2>4 DEF Overtakes
    <2>6. EagerSources(c) \subseteq computed
      BY <2>5 DEF EagerSources
    <2> QED
      BY <2>2, <2>6
  <1> QED
    BY <1>1, UnrolledInOrder, PTL
=============================================================================
