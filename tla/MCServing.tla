----------------------------- MODULE MCServing -----------------------------
EXTENDS Serving

\* _topological_sort raises on a cyclic workflow.
ASSUME GraphIsAcyclic == Acyclic

\* Two calls of one denoise scheduler (its init and a step) around a
\* transformer call, and the decoding of the result.
PipeNode == {"init", "dit", "step", "vae"}
PipeTensor == {"ts", "noise", "lat"}
PipeProducer == [t \in PipeTensor |-> CASE t = "ts" -> "init" [] t = "noise" -> "dit" [] t = "lat" -> "step"]
PipeInputs == [n \in PipeNode |-> CASE n = "init" -> {} [] n = "dit" -> {"ts"}
                                    [] n = "step" -> {"ts", "noise"} [] n = "vae" -> {"lat"}]
PipeLazy == [n \in PipeNode |-> {}]
PipeOp == [n \in PipeNode |-> n]
PipeVariant == [n \in PipeNode |-> "plain"]
PipeLatency == [n \in PipeNode |-> IF n = "dit" THEN 2 ELSE 1]
PipeThroughput == [n \in PipeNode |-> IF n = "dit" THEN 2 ELSE 1]

\* A denoise step with classifier-free guidance and a ControlNet: two
\* transformer calls, each taking the samples of its own ControlNet call lazily.
CfgNode == {"txt", "img", "cu", "ct", "tu", "tt", "step"}
CfgTensor == {"emb", "cond", "su", "st", "nu", "nt"}
CfgProducer == [t \in CfgTensor |-> CASE t = "emb" -> "txt" [] t = "cond" -> "img"
    [] t = "su" -> "cu" [] t = "st" -> "ct" [] t = "nu" -> "tu" [] t = "nt" -> "tt"]
CfgInputs == [n \in CfgNode |->
    CASE n \in {"txt", "img"} -> {} [] n \in {"cu", "ct"} -> {"emb", "cond"}
      [] n = "tu" -> {"emb", "su"} [] n = "tt" -> {"emb", "st"}
      [] n = "step" -> {"nu", "nt"}]
CfgLazy == [n \in CfgNode |-> CASE n = "tu" -> {"su"} [] n = "tt" -> {"st"} [] OTHER -> {}]
CfgOp == [n \in CfgNode |-> CASE n \in {"cu", "ct"} -> "control" [] n \in {"tu", "tt"} -> "dit" [] OTHER -> n]
CfgVariant == [n \in CfgNode |-> "plain"]
CfgLatency == [n \in CfgNode |-> 1]
CfgThroughput == [n \in CfgNode |-> IF CfgOp[n] \in {"control", "dit"} THEN 2 ELSE 1]

\* The timesteps of a scheduler's init, indexed by two nodes whose tasks form
\* one group, and the step that takes both.
IndexNode == {"init", "i1", "i2", "step"}
IndexTensor == {"ts", "t1", "t2"}
IndexProducer == [t \in IndexTensor |-> CASE t = "ts" -> "init" [] t = "t1" -> "i1" [] t = "t2" -> "i2"]
IndexInputs == [n \in IndexNode |-> CASE n = "init" -> {} [] n \in {"i1", "i2"} -> {"ts"}
                                      [] n = "step" -> {"t1", "t2"}]
IndexLazy == [n \in IndexNode |-> {}]
IndexOpId == [n \in IndexNode |-> IF n \in {"i1", "i2"} THEN "indexed" ELSE n]
IndexVariant == [n \in IndexNode |-> "plain"]
IndexBatch == [n \in IndexNode |-> 1]

=============================================================================
