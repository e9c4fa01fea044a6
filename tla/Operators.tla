----------------------------- MODULE Operators -----------------------------
(***************************************************************************)
(* The operators of diffusionflow/operators as a workflow sees them: for   *)
(* every execution mode, the arguments its execute cannot run without      *)
(* and the outputs setup_io declares: kwargs["x"], and the kwargs.get of   *)
(* which it builds a tensor, but not one with a default that it can use.   *)
(* The tensor computation itself is left out.                              *)
(*                                                                         *)
(* The residuals of a ControlNet are declared one output per block, all    *)
(* lazy. They are always produced and handed on together, so a family of   *)
(* them is one port here, and "blocks" says how many outputs it stands for.*)
(***************************************************************************)
EXTENDS Integers, Sequences

\* The ports declared with lazy=True.
LazyPorts == {"control_block_sample", "down_block_res_sample", "mid_block_res_sample"}

\* An execution mode that needs these arguments and has these outputs, a
\* sequence: Operator.__call__ returns them in the order of declaration.
Mode(needs, outs) == [needs |-> needs, outs |-> outs, blocks |-> 0]

\* An operator with a single mode.
Simple(needs, outs) == [default |-> Mode(needs, outs)]

\* A diffusion model, or a ControlNet, with residuals for this many blocks.
Blocked(needs, outs, blocks) ==
    [default |-> [needs |-> needs, outs |-> outs, blocks |-> blocks]]

---------------------------------------------------------------------------
(* Custom operators: generators of noise, combiners of embeddings.         *)

LatentsGenerator == Simple({}, <<"latents">>)
FluxLatentsGenerator == Simple({}, <<"latents">>)
GuidanceTensor == Simple({"guidance_scale"}, <<"guidance_tensor">>)
IndexedTensor == Simple({"tensor", "index"}, <<"indexed_tensor">>)
StableDiffusion3TextEncoder ==
    Simple({"clip_prompt_embeds", "clip_pooled_prompt_embeds", "clip_prompt_2_embeds",
            "clip_pooled_prompt_2_embeds", "t5_prompt_embeds"},
           <<"prompt_embeds", "pooled_prompt_embeds">>)
StableDiffusionXLTextEncoder ==
    Simple({"clip_prompt_embeds", "clip_prompt_2_embeds", "clip_pooled_prompt_2_embeds"},
           <<"prompt_embeds", "pooled_prompt_embeds">>)

---------------------------------------------------------------------------
(* Text encoders.                                                          *)

T5 == Simple({"prompt"}, <<"prompt_embeds">>)
T5_Flux == Simple({"prompt"}, <<"prompt_embeds">>)
CLIP == Simple({"prompt"}, <<"prompt_embeds", "pooled_prompt_embeds">>)
CLIP_Flux == Simple({"prompt"}, <<"prompt_embeds">>)
CLIP_SD15 == Simple({"prompt"}, <<"prompt_embeds">>)
CLIP_SDXL == Simple({"prompt"}, <<"prompt_embeds", "pooled_prompt_embeds">>)

---------------------------------------------------------------------------
(* Autoencoders. Flux packs its latents, so decoding needs their size.     *)

PrepareImage == Mode({"image", "height", "width"}, <<"image_embedding">>)
DecodeLatents == Mode({"latents"}, <<"image">>)

StableDiffusion3VAE == [prepare_image |-> PrepareImage, decode_latents |-> DecodeLatents]
StableDiffusion35LargeVAE ==
    [prepare_image |-> PrepareImage, decode_latents |-> DecodeLatents]
StableDiffusion15VAE == [prepare_image |-> PrepareImage, decode_latents |-> DecodeLatents]
Flux1VAE ==
    [prepare_image |-> PrepareImage,
     decode_latents |-> Mode({"latents", "height", "width"}, <<"image">>)]
StableDiffusionXLVAE ==
    [prepare_image |-> PrepareImage, decode_latents |-> DecodeLatents,
     preprocess_image |-> Mode({"init_image_path", "seed"}, <<"init_latents">>)]

---------------------------------------------------------------------------
(* Diffusion models: one prediction of the noise.                          *)

Flux1Dev ==
    Blocked({"latents", "timestep", "guidance", "prompt_embeds", "pooled_prompt_embeds",
             "height", "width"}, <<"noise_pred">>, 2)
Flux1Schnell ==
    Blocked({"latents", "timestep", "prompt_embeds", "pooled_prompt_embeds",
             "height", "width"}, <<"noise_pred">>, 2)
StableDiffusion15 ==
    Blocked({"latents", "timestep", "prompt_embeds"}, <<"noise_pred">>, 12)
StableDiffusion3 ==
    Blocked({"latents", "timestep", "prompt_embeds", "pooled_prompt_embeds"},
            <<"noise_pred">>, 6)
StableDiffusion35Large ==
    Blocked({"latents", "timestep", "prompt_embeds", "pooled_prompt_embeds"},
            <<"noise_pred">>, 19)
StableDiffusionXL ==
    Blocked({"latents", "timestep", "prompt_embeds", "pooled_prompt_embeds",
             "height", "width"}, <<"noise_pred">>, 9)

---------------------------------------------------------------------------
(* ControlNets: generators that yield one lazy output after the other.     *)

Residuals == <<"down_block_res_sample", "mid_block_res_sample">>

Flux1DevControlNet ==
    Blocked({"latents", "timestep", "guidance", "prompt_embeds", "pooled_prompt_embeds",
             "height", "width", "controlnet_cond", "conditioning_scale"},
            <<"control_block_sample">>, 2)
StableDiffusion15ControlNet ==
    Blocked({"latents", "timestep", "prompt_embeds", "controlnet_cond",
             "conditioning_scale"}, Residuals, 12)
StableDiffusion3ControlNet ==
    Blocked({"latents", "timestep", "prompt_embeds", "pooled_prompt_embeds",
             "controlnet_cond", "conditioning_scale"}, <<"control_block_sample">>, 6)
StableDiffusion35LargeControlNet ==
    Blocked({"latents", "timestep", "prompt_embeds", "pooled_prompt_embeds",
             "controlnet_cond", "conditioning_scale"}, <<"control_block_sample">>, 19)
StableDiffusionXLControlNet ==
    Blocked({"latents", "timestep", "prompt_embeds", "pooled_prompt_embeds",
             "height", "width", "controlnet_cond"}, Residuals, 9)

---------------------------------------------------------------------------
(* Schedulers. Every mode of one works on the same scheduler object.       *)

BaseScheduler ==
    [init |-> Mode({"num_inference_steps"}, <<"timesteps">>),
     step |-> Mode({"latents", "timestep", "noise_pred"}, <<"output_latents">>),
     step_classifier_free_guidance |->
         Mode({"latents", "timestep", "noise_pred_uncond", "noise_pred_text",
               "guidance_scale"}, <<"output_latents">>)]

\* Flux shifts its sigmas by the length of the latents.
FluxFlowMatchEulerDiscreteScheduler ==
    [BaseScheduler EXCEPT !.init.needs = @ \cup {"latents"}]
FluxSchnellFlowMatchEulerDiscreteScheduler ==
    [BaseScheduler EXCEPT !.init.needs = @ \cup {"latents"}]

EulerDiscreteScheduler ==
    [init |-> BaseScheduler.init, step |-> BaseScheduler.step,
     step_classifier_free_guidance |-> BaseScheduler.step_classifier_free_guidance,
     scale_model_input |-> Mode({"latents", "timestep"}, <<"latents">>),
     init_noise_sigma |-> Mode({"latents"}, <<"latents">>),
     img2img_get_timesteps |->
         Mode({"num_inference_steps", "strength", "latents"},
              <<"timesteps", "num_inference_steps", "latents">>)]

---------------------------------------------------------------------------
\* get_op: the operator behind each id. The Canny, Depth and Pose ControlNets
\* differ in their weights only, and so do the two schedulers without modes of
\* their own.
Catalog ==
    [LatentsGenerator |-> LatentsGenerator, FluxLatentsGenerator |-> FluxLatentsGenerator,
     GuidanceTensor |-> GuidanceTensor, IndexedTensor |-> IndexedTensor,
     StableDiffusion3TextEncoder |-> StableDiffusion3TextEncoder,
     StableDiffusionXLTextEncoder |-> StableDiffusionXLTextEncoder,
     T5 |-> T5, T5_Flux |-> T5_Flux, CLIP_L |-> CLIP, CLIP_G |-> CLIP,
     CLIP_Flux |-> CLIP_Flux, CLIP_SD15 |-> CLIP_SD15,
     CLIP_SDXL_1 |-> CLIP_SDXL, CLIP_SDXL_2 |-> CLIP_SDXL,
     StableDiffusion3VAE |-> StableDiffusion3VAE,
     StableDiffusion35LargeVAE |-> StableDiffusion35LargeVAE,
     StableDiffusion15VAE |-> StableDiffusion15VAE, Flux1VAE |-> Flux1VAE,
     StableDiffusionXLVAE |-> StableDiffusionXLVAE,
     Flux1Dev |-> Flux1Dev, Flux1Schnell |-> Flux1Schnell,
     StableDiffusion15 |-> StableDiffusion15, StableDiffusion3 |-> StableDiffusion3,
     StableDiffusion35Large |-> StableDiffusion35Large,
     StableDiffusionXL |-> StableDiffusionXL,
     Flux1DevControlNetCanny |-> Flux1DevControlNet,
     Flux1DevControlNetDepth |-> Flux1DevControlNet,
     StableDiffusion15ControlNetCanny |-> StableDiffusion15ControlNet,
     StableDiffusion15ControlNetDepth |-> StableDiffusion15ControlNet,
     StableDiffusion3ControlNetCanny |-> StableDiffusion3ControlNet,
     StableDiffusion3ControlNetPose |-> StableDiffusion3ControlNet,
     StableDiffusion35LargeControlNetCanny |-> StableDiffusion35LargeControlNet,
     StableDiffusion35LargeControlNetDepth |-> StableDiffusion35LargeControlNet,
     StableDiffusionXLControlNetCanny |-> StableDiffusionXLControlNet,
     StableDiffusionXLControlNetDepth |-> StableDiffusionXLControlNet,
     PNDMScheduler |-> BaseScheduler, FlowMatchEulerDiscreteScheduler |-> BaseScheduler,
     FluxFlowMatchEulerDiscreteScheduler |-> FluxFlowMatchEulerDiscreteScheduler,
     FluxSchnellFlowMatchEulerDiscreteScheduler |->
         FluxSchnellFlowMatchEulerDiscreteScheduler,
     EulerDiscreteScheduler |-> EulerDiscreteScheduler]

Outputs(op, mode) == Catalog[op][mode].outs
Needs(op, mode) == Catalog[op][mode].needs
Blocks(op) == Catalog[op].default.blocks

\* The subclasses of BaseScheduler.
SchedulerOps == {"PNDMScheduler", "FlowMatchEulerDiscreteScheduler",
                 "FluxFlowMatchEulerDiscreteScheduler",
                 "FluxSchnellFlowMatchEulerDiscreteScheduler", "EulerDiscreteScheduler"}
=============================================================================
