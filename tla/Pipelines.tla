----------------------------- MODULE Pipelines -----------------------------
(***************************************************************************)
(* The workflows that examples/register_*.py build and register, before    *)
(* they are unrolled: the nodes in the order of the calls, what each       *)
(* argument of a call refers to, and the denoise node.                     *)
(*                                                                         *)
(* All of them have one shape (noise, an optional control image, one text  *)
(* encoder call per encoder and prompt, the combined embeddings, the       *)
(* denoise node, the decoding) and differ in the family of the model, in   *)
(* the ControlNet, in the negative prompt and in the patches.              *)
(***************************************************************************)
EXTENDS Operators

---------------------------------------------------------------------------
(* NodeIO: what an argument refers to.                                     *)

\* Output "out" of the k-th call.
Output(k, out) == [src |-> k, out |-> out, no |-> 0]

\* An input of the workflow, by name.
Input(name) == [src |-> 0, out |-> name, no |-> 0]

\* The index of iteration i, an input that unroll_workflow adds.
IterationIndex(i) == [src |-> 0, out |-> "timestep", no |-> i]

\* The output of the denoise node, which names no call yet.
Denoised == [src |-> -1, out |-> "denoised_latents", no |-> 0]

\* None, which Operator.__call__ removes from the arguments.
Absent == [src |-> 0, out |-> "", no |-> 0]

Given(args) == [ a \in { b \in DOMAIN args : args[b] # Absent } |-> args[a] ]

\* A WorkflowNode: one call of an operator.
Call(op, mode, patches, args) ==
    [op |-> op, mode |-> mode, patches |-> patches, args |-> Given(args)]

InputArgs(names) == [ n \in names |-> Input(n) ]

---------------------------------------------------------------------------
(* The families of models. "encoders" are called once per prompt, in this  *)
(* order; "combine" turns what they return into the embeddings of a        *)
(* prompt, and without one the denoise node takes it as it is; an argument *)
(* <<e, out>> is output "out" of the e-th encoder.                         *)

SD3 ==
    [model |-> "StableDiffusion3", scheduler |-> "FlowMatchEulerDiscreteScheduler",
     vae |-> "StableDiffusion3VAE", noise |-> "LatentsGenerator",
     noiseInputs |-> {"seed", "height", "width"},
     encoders |-> <<"CLIP_L", "CLIP_G", "T5">>,
     combine |-> "StableDiffusion3TextEncoder",
     embeds |-> [clip_prompt_embeds |-> <<1, "prompt_embeds">>,
                 clip_pooled_prompt_embeds |-> <<1, "pooled_prompt_embeds">>,
                 clip_prompt_2_embeds |-> <<2, "prompt_embeds">>,
                 clip_pooled_prompt_2_embeds |-> <<2, "pooled_prompt_embeds">>,
                 t5_prompt_embeds |-> <<3, "prompt_embeds">>],
     modelInputs |-> {}, decodeInputs |-> {}, guidance |-> "guidance_scale"]

SD35Large == [SD3 EXCEPT !.model = "StableDiffusion35Large",
                         !.vae = "StableDiffusion35LargeVAE"]

SD15 ==
    [model |-> "StableDiffusion15", scheduler |-> "PNDMScheduler",
     vae |-> "StableDiffusion15VAE", noise |-> "LatentsGenerator",
     noiseInputs |-> {"seed", "height", "width", "num_channels_latents"},
     encoders |-> <<"CLIP_SD15">>, combine |-> "",
     embeds |-> [prompt_embeds |-> <<1, "prompt_embeds">>],
     modelInputs |-> {}, decodeInputs |-> {}, guidance |-> "guidance_scale"]

SDXL ==
    [model |-> "StableDiffusionXL", scheduler |-> "EulerDiscreteScheduler",
     vae |-> "StableDiffusionXLVAE", noise |-> "LatentsGenerator",
     noiseInputs |-> {"seed", "height", "width", "num_channels_latents"},
     encoders |-> <<"CLIP_SDXL_1", "CLIP_SDXL_2">>,
     combine |-> "StableDiffusionXLTextEncoder",
     embeds |-> [clip_prompt_embeds |-> <<1, "prompt_embeds">>,
                 clip_prompt_2_embeds |-> <<2, "prompt_embeds">>,
                 clip_pooled_prompt_2_embeds |-> <<2, "pooled_prompt_embeds">>],
     modelInputs |-> {"height", "width"}, decodeInputs |-> {},
     guidance |-> "guidance_scale"]

\* "guidance_scale" of a Flux model is a distilled guidance, an argument of the
\* model; that of classifier-free guidance is "cfg_guidance_scale".
Flux ==
    [model |-> "Flux1Dev", scheduler |-> "FluxFlowMatchEulerDiscreteScheduler",
     vae |-> "Flux1VAE", noise |-> "FluxLatentsGenerator",
     noiseInputs |-> {"seed", "height", "width"},
     encoders |-> <<"CLIP_Flux", "T5_Flux">>, combine |-> "",
     embeds |-> [prompt_embeds |-> <<2, "prompt_embeds">>,
                 pooled_prompt_embeds |-> <<1, "prompt_embeds">>],
     modelInputs |-> {"guidance_scale", "height", "width"},
     decodeInputs |-> {"height", "width"}, guidance |-> "cfg_guidance_scale"]

FluxSchnell == [Flux EXCEPT !.model = "Flux1Schnell",
                            !.scheduler = "FluxSchnellFlowMatchEulerDiscreteScheduler"]

---------------------------------------------------------------------------
(* create_workflow.                                                        *)

\* The operators that StableDiffusion3LoRA is added to.
LoraTargets == {"CLIP_L", "CLIP_G", "StableDiffusion3"}
PatchesOf(op, lora) ==
    IF lora /\ op \in LoraTargets THEN <<"StableDiffusion3LoRA">> ELSE << >>

BaseInputs == {"prompt_embeds", "pooled_prompt_embeds", "negative_prompt_embeds",
               "negative_pooled_prompt_embeds", "guidance_scale", "height", "width"}

\* An argument that is given under some condition only.
If(condition, value) == IF condition THEN value ELSE Absent

Pipeline(name, family, control, cfg, lora) ==
  LET controlled == control # ""
      prompts == IF cfg THEN <<"prompt", "negative_prompt">> ELSE <<"prompt">>
      P == Len(prompts)
      first == IF controlled THEN 2 ELSE 1
      encoded == first + P * Len(family.encoders)

      \* The call of encoder e for prompt p.
      Encoder(e, p) == first + (e - 1) * P + p
      Of(p, part) == Output(Encoder(part[1], p), part[2])

      Noise == Call(family.noise, "default", << >>, InputArgs(family.noiseInputs))
      Control == Call(family.vae, "prepare_image", << >>,
                      [image |-> Input("control_image"), height |-> Input("height"),
                       width |-> Input("width")])
      Encoding == [ j \in 1..(P * Len(family.encoders)) |->
                      LET op == family.encoders[((j - 1) \div P) + 1]
                      IN  Call(op, "default", PatchesOf(op, lora),
                               [prompt |-> Input(prompts[((j - 1) % P) + 1])]) ]
      Combining == IF family.combine = "" THEN << >>
                   ELSE [ p \in 1..P |->
                            Call(family.combine, "default", << >>,
                                 [ a \in DOMAIN family.embeds |-> Of(p, family.embeds[a]) ]) ]
      Decoding == Call(family.vae, "decode_latents", << >>,
                       [ a \in {"latents"} \cup family.decodeInputs |->
                           IF a = "latents" THEN Denoised ELSE Input(a) ])

      \* The embeddings of prompt p under the name the denoise node has for them.
      Embedding(p, a) ==
          CASE p > P -> Absent
            [] p <= P /\ family.combine # "" -> Output(encoded + p, a)
            [] p <= P /\ family.combine = "" ->
                 IF a \in DOMAIN family.embeds THEN Of(p, family.embeds[a]) ELSE Absent
  IN  [name |-> name,
       nodes |-> <<Noise>> \o (IF controlled THEN <<Control>> ELSE << >>)
                 \o Encoding \o Combining \o <<Decoding>>,
       denoise |-> <<
         [model |-> family.model, patches |-> PatchesOf(family.model, lora),
          scheduler |-> family.scheduler,
          latents |-> Output(1, "latents"),
          base |-> [ a \in BaseInputs |->
              CASE a = "prompt_embeds" -> Embedding(1, a)
                [] a = "pooled_prompt_embeds" -> Embedding(1, a)
                [] a = "negative_prompt_embeds" -> Embedding(2, "prompt_embeds")
                [] a = "negative_pooled_prompt_embeds" -> Embedding(2, "pooled_prompt_embeds")
                [] OTHER -> If(a \in family.modelInputs, Input(a)) ],
          steps |-> Input("num_inference_steps"),
          guidance |-> If(cfg, Input(family.guidance)),
          strength |-> Absent,
          adapters |-> IF controlled
                       THEN <<[op |-> control, cond |-> Output(2, "image_embedding"),
                               scale |-> Input("conditioning_scale")]>>
                       ELSE << >>] >>,
       nirvana |-> FALSE]

\* A workflow that only encodes a prompt.
EncoderOnly(name, op) ==
    [name |-> name,
     nodes |-> <<Call(op, "default", << >>, [prompt |-> Input("text_prompt")])>>,
     denoise |-> << >>, nirvana |-> FALSE]

---------------------------------------------------------------------------
(* The registered workflows, one per example.                              *)

flux_schnell_txt2img_cfg_workflow ==
    Pipeline("flux_schnell_txt2img_cfg_workflow", FluxSchnell, "", TRUE, FALSE)
flux_schnell_txt2img_controlnet_canny_cfg_workflow ==
    Pipeline("flux_schnell_txt2img_controlnet_canny_cfg_workflow", FluxSchnell, "Flux1DevControlNetCanny", TRUE, FALSE)
flux_schnell_txt2img_controlnet_canny_workflow ==
    Pipeline("flux_schnell_txt2img_controlnet_canny_workflow", FluxSchnell, "Flux1DevControlNetCanny", FALSE, FALSE)
flux_schnell_txt2img_controlnet_depth_cfg_workflow ==
    Pipeline("flux_schnell_txt2img_controlnet_depth_cfg_workflow", FluxSchnell, "Flux1DevControlNetDepth", TRUE, FALSE)
flux_schnell_txt2img_controlnet_depth_workflow ==
    Pipeline("flux_schnell_txt2img_controlnet_depth_workflow", FluxSchnell, "Flux1DevControlNetDepth", FALSE, FALSE)
flux_schnell_txt2img_workflow ==
    Pipeline("flux_schnell_txt2img_workflow", FluxSchnell, "", FALSE, FALSE)
flux_txt2img_cfg_workflow ==
    Pipeline("flux_txt2img_cfg_workflow", Flux, "", TRUE, FALSE)
flux_txt2img_controlnet_canny_cfg_workflow ==
    Pipeline("flux_txt2img_controlnet_canny_cfg_workflow", Flux, "Flux1DevControlNetCanny", TRUE, FALSE)
flux_txt2img_controlnet_canny_workflow ==
    Pipeline("flux_txt2img_controlnet_canny_workflow", Flux, "Flux1DevControlNetCanny", FALSE, FALSE)
flux_txt2img_controlnet_depth_cfg_workflow ==
    Pipeline("flux_txt2img_controlnet_depth_cfg_workflow", Flux, "Flux1DevControlNetDepth", TRUE, FALSE)
flux_txt2img_controlnet_depth_workflow ==
    Pipeline("flux_txt2img_controlnet_depth_workflow", Flux, "Flux1DevControlNetDepth", FALSE, FALSE)
flux_txt2img_workflow ==
    Pipeline("flux_txt2img_workflow", Flux, "", FALSE, FALSE)
sd15_txt2img_cfg_workflow ==
    Pipeline("sd15_txt2img_cfg_workflow", SD15, "", TRUE, FALSE)
sd15_txt2img_controlnet_canny_cfg_workflow ==
    Pipeline("sd15_txt2img_controlnet_canny_cfg_workflow", SD15, "StableDiffusion15ControlNetCanny", TRUE, FALSE)
sd15_txt2img_controlnet_canny_workflow ==
    Pipeline("sd15_txt2img_controlnet_canny_workflow", SD15, "StableDiffusion15ControlNetCanny", FALSE, FALSE)
sd15_txt2img_controlnet_depth_cfg_workflow ==
    Pipeline("sd15_txt2img_controlnet_depth_cfg_workflow", SD15, "StableDiffusion15ControlNetDepth", TRUE, FALSE)
sd15_txt2img_controlnet_depth_workflow ==
    Pipeline("sd15_txt2img_controlnet_depth_workflow", SD15, "StableDiffusion15ControlNetDepth", FALSE, FALSE)
sd15_txt2img_workflow ==
    Pipeline("sd15_txt2img_workflow", SD15, "", FALSE, FALSE)
sd35_large_txt2img_cfg_workflow ==
    Pipeline("sd35_large_txt2img_cfg_workflow", SD35Large, "", TRUE, FALSE)
sd35_large_txt2img_controlnet_canny_cfg_workflow ==
    Pipeline("sd35_large_txt2img_controlnet_canny_cfg_workflow", SD35Large, "StableDiffusion35LargeControlNetCanny", TRUE, FALSE)
sd35_large_txt2img_controlnet_canny_workflow ==
    Pipeline("sd35_large_txt2img_controlnet_canny_workflow", SD35Large, "StableDiffusion35LargeControlNetCanny", FALSE, FALSE)
sd35_large_txt2img_controlnet_depth_cfg_workflow ==
    Pipeline("sd35_large_txt2img_controlnet_depth_cfg_workflow", SD35Large, "StableDiffusion35LargeControlNetDepth", TRUE, FALSE)
sd35_large_txt2img_controlnet_depth_workflow ==
    Pipeline("sd35_large_txt2img_controlnet_depth_workflow", SD35Large, "StableDiffusion35LargeControlNetDepth", FALSE, FALSE)
sd35_large_txt2img_workflow ==
    Pipeline("sd35_large_txt2img_workflow", SD35Large, "", FALSE, FALSE)
sd3_txt2img_cfg_workflow ==
    Pipeline("sd3_txt2img_cfg_workflow", SD3, "", TRUE, FALSE)
sd3_txt2img_controlnet_canny_cfg_workflow ==
    Pipeline("sd3_txt2img_controlnet_canny_cfg_workflow", SD3, "StableDiffusion3ControlNetCanny", TRUE, FALSE)
sd3_txt2img_controlnet_canny_workflow ==
    Pipeline("sd3_txt2img_controlnet_canny_workflow", SD3, "StableDiffusion3ControlNetCanny", FALSE, FALSE)
sd3_txt2img_controlnet_pose_cfg_workflow ==
    Pipeline("sd3_txt2img_controlnet_pose_cfg_workflow", SD3, "StableDiffusion3ControlNetPose", TRUE, FALSE)
sd3_txt2img_controlnet_pose_workflow ==
    Pipeline("sd3_txt2img_controlnet_pose_workflow", SD3, "StableDiffusion3ControlNetPose", FALSE, FALSE)
\* It registers under the name of the workflow without the patch.
sd3_txt2img_lora_cfg_workflow ==
    Pipeline("sd3_txt2img_cfg_workflow", SD3, "", TRUE, TRUE)
sd3_txt2img_lora_controlnet_canny_cfg_workflow ==
    Pipeline("sd3_txt2img_lora_controlnet_canny_cfg_workflow", SD3, "StableDiffusion3ControlNetCanny", TRUE, TRUE)
sd3_txt2img_lora_workflow ==
    Pipeline("sd3_txt2img_lora_workflow", SD3, "", FALSE, TRUE)
sd3_txt2img_workflow ==
    Pipeline("sd3_txt2img_workflow", SD3, "", FALSE, FALSE)
sdxl_txt2img_cfg_workflow ==
    Pipeline("sdxl_txt2img_cfg_workflow", SDXL, "", TRUE, FALSE)
sdxl_txt2img_controlnet_canny_cfg_workflow ==
    Pipeline("sdxl_txt2img_controlnet_canny_cfg_workflow", SDXL, "StableDiffusionXLControlNetCanny", TRUE, FALSE)
sdxl_txt2img_controlnet_canny_workflow ==
    Pipeline("sdxl_txt2img_controlnet_canny_workflow", SDXL, "StableDiffusionXLControlNetCanny", FALSE, FALSE)
sdxl_txt2img_controlnet_depth_cfg_workflow ==
    Pipeline("sdxl_txt2img_controlnet_depth_cfg_workflow", SDXL, "StableDiffusionXLControlNetDepth", TRUE, FALSE)
sdxl_txt2img_controlnet_depth_workflow ==
    Pipeline("sdxl_txt2img_controlnet_depth_workflow", SDXL, "StableDiffusionXLControlNetDepth", FALSE, FALSE)
sdxl_txt2img_workflow ==
    Pipeline("sdxl_txt2img_workflow", SDXL, "", FALSE, FALSE)
t5_func_workflow == EncoderOnly("t5_func_workflow", "T5")
t5_workflow == EncoderOnly("t5_workflow", "T5")

\* examples/register_sdxl_txt2img_bal_workflow.py imports an operator that
\* diffusionflow.operators does not export and registers nothing.
Registered ==
    {flux_schnell_txt2img_cfg_workflow,
     flux_schnell_txt2img_controlnet_canny_cfg_workflow,
     flux_schnell_txt2img_controlnet_canny_workflow,
     flux_schnell_txt2img_controlnet_depth_cfg_workflow,
     flux_schnell_txt2img_controlnet_depth_workflow,
     flux_schnell_txt2img_workflow,
     flux_txt2img_cfg_workflow,
     flux_txt2img_controlnet_canny_cfg_workflow,
     flux_txt2img_controlnet_canny_workflow,
     flux_txt2img_controlnet_depth_cfg_workflow,
     flux_txt2img_controlnet_depth_workflow,
     flux_txt2img_workflow,
     sd15_txt2img_cfg_workflow,
     sd15_txt2img_controlnet_canny_cfg_workflow,
     sd15_txt2img_controlnet_canny_workflow,
     sd15_txt2img_controlnet_depth_cfg_workflow,
     sd15_txt2img_controlnet_depth_workflow,
     sd15_txt2img_workflow,
     sd35_large_txt2img_cfg_workflow,
     sd35_large_txt2img_controlnet_canny_cfg_workflow,
     sd35_large_txt2img_controlnet_canny_workflow,
     sd35_large_txt2img_controlnet_depth_cfg_workflow,
     sd35_large_txt2img_controlnet_depth_workflow,
     sd35_large_txt2img_workflow,
     sd3_txt2img_cfg_workflow,
     sd3_txt2img_controlnet_canny_cfg_workflow,
     sd3_txt2img_controlnet_canny_workflow,
     sd3_txt2img_controlnet_pose_cfg_workflow,
     sd3_txt2img_controlnet_pose_workflow,
     sd3_txt2img_lora_cfg_workflow,
     sd3_txt2img_lora_controlnet_canny_cfg_workflow,
     sd3_txt2img_lora_workflow,
     sd3_txt2img_workflow,
     sdxl_txt2img_cfg_workflow,
     sdxl_txt2img_controlnet_canny_cfg_workflow,
     sdxl_txt2img_controlnet_canny_workflow,
     sdxl_txt2img_controlnet_depth_cfg_workflow,
     sdxl_txt2img_controlnet_depth_workflow,
     sdxl_txt2img_workflow,
     t5_func_workflow,
     t5_workflow}

\* No example registers the image-to-image workflow that unroll_workflow and
\* the client of the benchmarks know: its noise is the encoding of an image, and
\* a strength says how much of the schedule is left.
sdxl_txt2img_nirvana_workflow ==
    LET w == sdxl_txt2img_workflow
        encode == Call("StableDiffusionXLVAE", "preprocess_image", << >>,
                       [init_image_path |-> Input("init_image_path"),
                        seed |-> Input("seed")])
    IN  [w EXCEPT !.name = "sdxl_txt2img_nirvana_workflow", !.nirvana = TRUE,
                  !.nodes[1] = encode,
                  !.denoise[1].latents = Output(1, "init_latents"),
                  !.denoise[1].strength = Input("strength")]
=============================================================================
